---- MODULE Spec2Model ----
(***************************************************************************)
(* Shape and type inference functions of the tensor operators defined in   *)
(* onnx/defs/tensor/defs.cc.  An inference function reads the input type   *)
(* slots, the constant input data and the attributes of an                 *)
(* InferenceContext and mutates the output type slots; it may abort with   *)
(* fail_shape_inference / fail_type_inference.  Every inference function   *)
(* is an operator from a context to the pair (ok, output slots as left at  *)
(* the return or at the throw); one action per operator applies it to the  *)
(* context held in the variables.                                          *)
(***************************************************************************)
EXTENDS Integers, Sequences, FiniteSets, TLC

VARIABLES
  op,       \* the operator whose inference function the node runs
  inputs,   \* the input type slots (element type, optional shape)
  data,     \* the constant data of each input (getInputData)
  attrs,    \* the node's attributes
  outputs,  \* the mutable output type slots
  status,   \* "ready", "ok" (last call returned) or "failed" (last call threw)
  calls,    \* inference calls made on this context
  prev,     \* the output slots as they were before the last call
  base,     \* result of the call made before the inputs were last refined
  refined   \* number of refinements applied to the inputs

vars == <<op, inputs, data, attrs, outputs, status, calls, prev, base, refined>>

(***************************************************************************)
(* Bounds of the model.                                                    *)
(***************************************************************************)
MaxRank == 2
MaxDim == 2
MaxVal == 1
MaxCalls == 2
MaxRefine == 1

(***************************************************************************)
(* TensorShapeProto::Dimension: a oneof of dim_value and dim_param, or     *)
(* neither.  Parameter names are numbered.                                 *)
(***************************************************************************)
DimValue(n) == [k |-> "value", v |-> n]

DimParam(p) == [k |-> "param", v |-> p]

NoDim == [k |-> "none", v |-> 0]

has_dim_value(d) == d.k = "value"

has_dim_param(d) == d.k = "param"

(***************************************************************************)
(* TypeProto with a tensor type: elem_type, and a shape that may be absent.*)
(* A default-constructed TypeProto has no element type and no shape.       *)
(***************************************************************************)
FreshType == [elem |-> "UNDEFINED", has_shape |-> FALSE, dim |-> <<>>]

Tensor(e, dims) == [elem |-> e, has_shape |-> TRUE, dim |-> dims]

Unranked(e) == [elem |-> e, has_shape |-> FALSE, dim |-> <<>>]

dim_size(t) == Len(t.dim)

\* ctx.getOutputType(j)->mutable_tensor_type()->set_elem_type(e)
set_elem_type(out, j, e) == [out EXCEPT ![j + 1].elem = e]

\* ctx.getOutputType(j)->mutable_tensor_type()->mutable_shape()
mutable_shape(out, j) == [out EXCEPT ![j + 1].has_shape = TRUE]

\* ...->mutable_shape()->add_dim(), the new dimension holding d
add_dim(out, j, d) ==
  [out EXCEPT ![j + 1].has_shape = TRUE, ![j + 1].dim = Append(@, d)]

\* *...->mutable_shape()->mutable_dim(i) = d
mutable_dim(out, j, i, d) ==
  [out EXCEPT ![j + 1].has_shape = TRUE, ![j + 1].dim[i + 1] = d]

\* *...->mutable_shape() = shape of t
assign_shape(out, j, t) ==
  [out EXCEPT ![j + 1].has_shape = TRUE, ![j + 1].dim = t.dim]

(***************************************************************************)
(* Results of an inference call: returned, or thrown, with the output      *)
(* slots as they are at that point.                                        *)
(***************************************************************************)
Return(out) == [ok |-> TRUE, out |-> out]

Fail(out) == [ok |-> FALSE, out |-> out]

(***************************************************************************)
(* The InferenceContext interface and the helpers of                       *)
(* onnx/defs/shape_inference.h used by the inference functions.            *)
(***************************************************************************)
getNumInputs(c) == Len(c.inputs)

getNumOutputs(c) == Len(c.outputs)

getInputType(c, n) == c.inputs[n + 1]

getInputData(c, n) == c.data[n + 1]

NoAttr == [has |-> FALSE, i |-> 0, ints |-> <<>>]

IntAttr(x) == [has |-> TRUE, i |-> x, ints |-> <<>>]

IntsAttr(xs) == [has |-> TRUE, i |-> 0, ints |-> xs]

getAttribute(c, name, default) ==
  IF c.attrs[name].has THEN c.attrs[name].i ELSE default

getRepeatedAttribute(c, name) == c.attrs[name]

hasInputShape(c, n) ==
  getNumInputs(c) > n /\ getInputType(c, n).has_shape

hasNInputShapes(c, n) == \A i \in 0..(n - 1) : hasInputShape(c, i)

\* Copies the element type of input i to output j; an input with no element
\* type is a type inference failure.
propagateElemTypeFromInputToOutput(c, out, i, j) ==
  IF getInputType(c, i).elem = "UNDEFINED"
    THEN Fail(out)
    ELSE Return(set_elem_type(out, j, getInputType(c, i).elem))

updateOutputElemType(out, j, e) == set_elem_type(out, j, e)

\* TensorProto::DataType of an attribute's integer value.
DataTypeOf(code) ==
  IF code = 1 THEN "FLOAT"
  ELSE IF code = 6 THEN "INT32"
  ELSE IF code = 7 THEN "INT64"
  ELSE IF code = 9 THEN "BOOL"
  ELSE "UNDEFINED"

\* The element type named by an attribute; failure when the attribute is
\* absent or names no data type.
propagateElemTypeFromAttributeToOutput(c, out, name, j) ==
  IF ~c.attrs[name].has \/ DataTypeOf(c.attrs[name].i) = "UNDEFINED"
    THEN Fail(out)
    ELSE Return(set_elem_type(out, j, DataTypeOf(c.attrs[name].i)))

propagateShapeFromInputToOutput(c, out, i, j) ==
  assign_shape(out, j, getInputType(c, i))

\* Dimension reconciliation: an unset target takes the source; a value wins
\* over a parameter; unequal values fail; unequal parameters widen to unknown.
mergeInDimensionInfo(source, target) ==
  IF target.k = "none" THEN [ok |-> TRUE, d |-> source]
  ELSE IF source.k = "none" THEN [ok |-> TRUE, d |-> target]
  ELSE IF has_dim_value(source) /\ has_dim_value(target)
    THEN [ok |-> source.v = target.v, d |-> target]
  ELSE IF has_dim_value(source) THEN [ok |-> TRUE, d |-> source]
  ELSE IF has_dim_value(target) THEN [ok |-> TRUE, d |-> target]
  ELSE IF source.v = target.v THEN [ok |-> TRUE, d |-> target]
  ELSE [ok |-> TRUE, d |-> NoDim]

(***************************************************************************)
(* Pad-2                                                                   *)
(***************************************************************************)
\* A variant that passes an unknown dimension through only when both pads of
\* the axis are zero.
RECURSIVE PadDimsBothZero(_, _, _, _)
PadDimsBothZero(c, out, pads, i) ==
  LET input_shape == getInputType(c, 0)
      n == dim_size(input_shape)
  IN IF i >= n THEN out
     ELSE LET d == input_shape.dim[i + 1]
              newdim ==
                IF has_dim_value(d)
                  THEN DimValue(d.v + pads[i + 1] + pads[n + i + 1])
                ELSE IF pads[i + 1] = 0 /\ pads[n + i + 1] = 0 THEN d
                ELSE NoDim
          IN PadDimsBothZero(c, add_dim(out, 0, newdim), pads, i + 1)

RECURSIVE PadDims(_, _, _, _)
PadDims(c, out, pads, i) ==
  LET input_shape == getInputType(c, 0)
      n == dim_size(input_shape)
  IN IF i >= n THEN out
     ELSE LET d == input_shape.dim[i + 1]
              newdim ==
                IF has_dim_value(d)
                  THEN DimValue(d.v + pads[i + 1] + pads[n + i + 1])
                ELSE IF pads[i + 1] + pads[n + i + 1] = 0 THEN d
                ELSE NoDim
          IN PadDims(c, add_dim(out, 0, newdim), pads, i + 1)

\* A variant that treats a missing 'pads' attribute as missing information.
PadInferenceLenient(c) ==
  LET r0 == propagateElemTypeFromInputToOutput(c, c.outputs, 0, 0)
  IN IF ~r0.ok THEN r0
     ELSE IF ~hasNInputShapes(c, 1) THEN r0
     ELSE LET pads == getRepeatedAttribute(c, "pads")
          IN IF ~pads.has THEN r0
             ELSE IF Len(pads.ints) # dim_size(getInputType(c, 0)) * 2
               THEN Fail(r0.out)
             ELSE Return(PadDims(c, mutable_shape(r0.out, 0), pads.ints, 0))

PadInference(c) ==
  LET r0 == propagateElemTypeFromInputToOutput(c, c.outputs, 0, 0)
  IN IF ~r0.ok THEN r0
     ELSE IF ~hasNInputShapes(c, 1) THEN r0
     ELSE LET pads == getRepeatedAttribute(c, "pads")
          IN IF ~pads.has THEN Fail(r0.out)
             ELSE IF Len(pads.ints) # dim_size(getInputType(c, 0)) * 2
               THEN Fail(r0.out)
             ELSE Return(PadDims(c, mutable_shape(r0.out, 0), pads.ints, 0))

(***************************************************************************)
(* Squeeze-1                                                               *)
(***************************************************************************)
RECURSIVE SqueezeDims(_, _, _, _, _)
SqueezeDims(c, out, axes, i, j) ==
  LET input_shape == getInputType(c, 0)
  IN IF i >= dim_size(input_shape) THEN Return(out)
     ELSE LET d == input_shape.dim[i + 1]
          IN IF j < Len(axes) /\ axes[j + 1] = i
               THEN IF has_dim_value(d) /\ d.v # 1
                      THEN Fail(out)
                      ELSE SqueezeDims(c, out, axes, i + 1, j + 1)
               ELSE SqueezeDims(c, add_dim(out, 0, d), axes, i + 1, j)

SqueezeInference(c) ==
  LET r0 == propagateElemTypeFromInputToOutput(c, c.outputs, 0, 0)
      axes == getRepeatedAttribute(c, "axes")
  IN IF ~r0.ok THEN r0
     ELSE IF ~hasNInputShapes(c, 1) THEN r0
     ELSE IF ~axes.has THEN r0
     ELSE IF ~getInputType(c, 0).has_shape THEN r0
     ELSE SqueezeDims(c, mutable_shape(r0.out, 0), axes.ints, 0, 0)

(***************************************************************************)
(* Unsqueeze-1                                                             *)
(***************************************************************************)
Insert(s, x, pos) == SubSeq(s, 1, pos - 1) \o <<x>> \o SubSeq(s, pos, Len(s))

\* The axes as they were given.
Unsorted(s) == s

RECURSIVE std_sort(_)
std_sort(s) ==
  IF Len(s) <= 1 THEN s
  ELSE LET rest == std_sort(Tail(s))
           smaller == Cardinality({q \in 1..Len(rest) : rest[q] < Head(s)})
       IN Insert(rest, Head(s), smaller + 1)

\* while (j < axes.size() && axes[j] == output dim_size) { add_dim 1; ++j; }
RECURSIVE UnsqueezeOnes(_, _, _)
UnsqueezeOnes(out, axes, j) ==
  IF j < Len(axes) /\ axes[j + 1] = dim_size(out[1])
    THEN UnsqueezeOnes(add_dim(out, 0, DimValue(1)), axes, j + 1)
    ELSE [out |-> out, j |-> j]

RECURSIVE UnsqueezeDims(_, _, _, _, _)
UnsqueezeDims(c, out, axes, i, j) ==
  LET input_shape == getInputType(c, 0)
      w == UnsqueezeOnes(out, axes, j)
  IN IF i >= dim_size(input_shape) THEN w.out
     ELSE UnsqueezeDims(c, add_dim(w.out, 0, input_shape.dim[i + 1]),
                        axes, i + 1, w.j)

UnsqueezeInference(c) ==
  LET r0 == propagateElemTypeFromInputToOutput(c, c.outputs, 0, 0)
      axes == getRepeatedAttribute(c, "axes")
  IN IF ~r0.ok THEN r0
     ELSE IF ~hasNInputShapes(c, 1) THEN r0
     ELSE IF ~axes.has THEN r0
     ELSE IF ~getInputType(c, 0).has_shape THEN r0
     ELSE Return(UnsqueezeDims(c, mutable_shape(r0.out, 0),
                               std_sort(axes.ints), 0, 0))

(***************************************************************************)
(* Tile-6                                                                  *)
(***************************************************************************)
RECURSIVE TileDims(_, _, _, _)
TileDims(c, out, repeats_data, i) ==
  LET input_shape == getInputType(c, 0)
  IN IF i >= dim_size(input_shape) THEN out
     ELSE LET input_dim == input_shape.dim[i + 1]
              output_dim ==
                IF has_dim_value(input_dim)
                  THEN DimValue(input_dim.v * repeats_data[i + 1])
                  ELSE NoDim
          IN TileDims(c, add_dim(out, 0, output_dim), repeats_data, i + 1)

\* A variant that resizes the shape of output j to n dimensions instead of
\* appending n dimensions to it.
AddDimsResized(out, j, n) ==
  [out EXCEPT ![j + 1].has_shape = TRUE,
              ![j + 1].dim = [q \in 1..(IF n < 0 THEN 0 ELSE n) |-> NoDim]]

RECURSIVE AddDims(_, _, _)
AddDims(out, j, n) ==
  IF n <= 0 THEN out ELSE AddDims(add_dim(out, j, NoDim), j, n - 1)

TileInference(c) ==
  LET r0 == propagateElemTypeFromInputToOutput(c, c.outputs, 0, 0)
  IN IF ~r0.ok THEN r0
     ELSE IF ~hasNInputShapes(c, 1) THEN r0
     ELSE LET input_rank == dim_size(getInputType(c, 0))
              repeats_inputs == getInputData(c, 1)
              out1 == mutable_shape(r0.out, 0)
          IN IF repeats_inputs.avail
               THEN IF dim_size(getInputType(c, 1)) # 1
                         \/ repeats_inputs.data_type # "INT64"
                      THEN Fail(out1)
                    ELSE IF Len(repeats_inputs.vals) # input_rank
                      THEN Fail(out1)
                    ELSE Return(TileDims(c, out1, repeats_inputs.vals, 0))
               ELSE Return(AddDims(out1, 0, input_rank))

(***************************************************************************)
(* Reshape-5                                                               *)
(***************************************************************************)
\* A variant of the first loop that leaves the dimension of a 0 entry unset
\* when the entry is at no position of the input shape.
RECURSIVE ReshapeDimsZeroAnywhere(_, _, _, _)
ReshapeDimsZeroAnywhere(c, targetShape, i, st) ==
  IF i >= Len(targetShape) THEN st
  ELSE
    LET dataInput == getInputType(c, 0)
        t == targetShape[i + 1]
        added == add_dim(st.out, 0, NoDim)
        pos == dim_size(added[1])
        st1 == [st EXCEPT !.out = added]
        copied == dataInput.has_shape /\ i < dim_size(dataInput)
    IN IF t = -1
         THEN IF st.neg # 0
                THEN [st1 EXCEPT !.fail = TRUE]
                ELSE ReshapeDimsZeroAnywhere(c, targetShape, i + 1,
                                             [st1 EXCEPT !.neg = pos])
       ELSE IF t = 0
         THEN ReshapeDimsZeroAnywhere(c, targetShape, i + 1,
                IF copied /\ has_dim_value(dataInput.dim[i + 1])
                  THEN [st1 EXCEPT
                          !.out = mutable_dim(added, 0, pos - 1,
                                              dataInput.dim[i + 1]),
                          !.product = @ * dataInput.dim[i + 1].v]
                ELSE IF copied
                  THEN [st1 EXCEPT
                          !.out = mutable_dim(added, 0, pos - 1,
                                              dataInput.dim[i + 1]),
                          !.zeros[i + 1] = TRUE]
                ELSE [st1 EXCEPT !.zeros[i + 1] = TRUE])
       ELSE IF t > 0
         THEN ReshapeDimsZeroAnywhere(c, targetShape, i + 1,
                [st1 EXCEPT !.out = mutable_dim(added, 0, pos - 1, DimValue(t)),
                            !.product = @ * t])
       ELSE [st1 EXCEPT !.fail = TRUE]

\* The first loop: one output dimension per entry of targetShape.  st holds
\* the output slots, the position of negativeOneDim in output 0 (0: nullptr),
\* unresolvedZeros, outputProduct and whether the loop threw.
RECURSIVE ReshapeDims(_, _, _, _)
ReshapeDims(c, targetShape, i, st) ==
  IF i >= Len(targetShape) THEN st
  ELSE
    LET dataInput == getInputType(c, 0)
        t == targetShape[i + 1]
        added == add_dim(st.out, 0, NoDim)
        pos == dim_size(added[1])
        st1 == [st EXCEPT !.out = added]
    IN IF t = -1
         THEN IF st.neg # 0
                THEN [st1 EXCEPT !.fail = TRUE]
                ELSE ReshapeDims(c, targetShape, i + 1, [st1 EXCEPT !.neg = pos])
       ELSE IF t = 0
         THEN LET st2 == [st1 EXCEPT !.zeros[i + 1] = TRUE]
              IN IF dataInput.has_shape
                   THEN IF i >= dim_size(dataInput)
                          THEN [st2 EXCEPT !.fail = TRUE]
                        ELSE IF has_dim_value(dataInput.dim[i + 1])
                          THEN ReshapeDims(c, targetShape, i + 1,
                                 [st2 EXCEPT
                                    !.out = mutable_dim(added, 0, pos - 1,
                                              DimValue(dataInput.dim[i + 1].v)),
                                    !.product = @ * dataInput.dim[i + 1].v,
                                    !.zeros[i + 1] = FALSE])
                        ELSE IF has_dim_param(dataInput.dim[i + 1])
                          THEN ReshapeDims(c, targetShape, i + 1,
                                 [st2 EXCEPT
                                    !.out = mutable_dim(added, 0, pos - 1,
                                              DimParam(dataInput.dim[i + 1].v))])
                        ELSE ReshapeDims(c, targetShape, i + 1, st2)
                   ELSE ReshapeDims(c, targetShape, i + 1, st2)
       ELSE IF t > 0
         THEN ReshapeDims(c, targetShape, i + 1,
                [st1 EXCEPT !.out = mutable_dim(added, 0, pos - 1, DimValue(t)),
                            !.product = @ * t])
       ELSE [st1 EXCEPT !.fail = TRUE]

\* The product of the input dimensions taken from the leading dimension
\* alone.
ReshapeInputProductLeading(dataInput, zeros, i, acc) ==
  [valid |-> TRUE,
   product |-> IF dim_size(dataInput) > 0 /\ has_dim_value(dataInput.dim[1])
                 THEN dataInput.dim[1].v ELSE 1]

\* The second loop: the product of the known input dimensions, invalid as
\* soon as an unknown dimension is not covered by an unresolved zero.
RECURSIVE ReshapeInputProduct(_, _, _, _)
ReshapeInputProduct(dataInput, zeros, i, acc) ==
  IF i >= dim_size(dataInput) THEN [valid |-> TRUE, product |-> acc]
  ELSE IF has_dim_value(dataInput.dim[i + 1])
    THEN ReshapeInputProduct(dataInput, zeros, i + 1,
                             acc * dataInput.dim[i + 1].v)
  ELSE IF i >= Len(zeros) \/ ~zeros[i + 1]
    THEN [valid |-> FALSE, product |-> acc]
  ELSE ReshapeInputProduct(dataInput, zeros, i + 1, acc)

\* Reshape inference that gives up on the -1 entry as soon as any input
\* dimension is not a known value.
ReshapeInferenceStrict(c) ==
  LET r0 == propagateElemTypeFromInputToOutput(c, c.outputs, 0, 0)
      targetShapeInitializer == getInputData(c, 1)
  IN IF ~r0.ok THEN r0
     ELSE IF ~targetShapeInitializer.avail THEN r0
     ELSE
       LET targetShape == targetShapeInitializer.vals
           dataInput == getInputType(c, 0)
           st == ReshapeDims(c, targetShape, 0,
                   [out |-> mutable_shape(r0.out, 0), neg |-> 0,
                    zeros |-> [q \in 1..Len(targetShape) |-> FALSE],
                    product |-> 1, fail |-> FALSE])
           ip == IF ~dataInput.has_shape
                   THEN [valid |-> FALSE, product |-> 1]
                   ELSE ReshapeInputProduct(dataInput,
                          [q \in 1..Len(targetShape) |-> FALSE], 0, 1)
       IN IF st.fail THEN Fail(st.out)
          ELSE IF st.neg = 0 THEN Return(st.out)
          ELSE IF st.product = 0 THEN Fail(st.out)
          ELSE IF ~ip.valid THEN Return(st.out)
          ELSE IF ip.product % st.product # 0 THEN Fail(st.out)
          ELSE Return(mutable_dim(st.out, 0, st.neg - 1,
                                  DimValue(ip.product \div st.product)))

ReshapeInference(c) ==
  LET r0 == propagateElemTypeFromInputToOutput(c, c.outputs, 0, 0)
      targetShapeInitializer == getInputData(c, 1)
  IN IF ~r0.ok THEN r0
     ELSE IF ~targetShapeInitializer.avail THEN r0
     ELSE
       LET targetShape == targetShapeInitializer.vals
           dataInput == getInputType(c, 0)
           st == ReshapeDims(c, targetShape, 0,
                   [out |-> mutable_shape(r0.out, 0), neg |-> 0,
                    zeros |-> [q \in 1..Len(targetShape) |-> FALSE],
                    product |-> 1, fail |-> FALSE])
           ip == IF ~dataInput.has_shape
                   THEN [valid |-> FALSE, product |-> 1]
                   ELSE ReshapeInputProduct(dataInput, st.zeros, 0, 1)
       IN IF st.fail THEN Fail(st.out)
          ELSE IF st.neg = 0 THEN Return(st.out)
          ELSE IF st.product = 0 THEN Fail(st.out)
          ELSE IF ~ip.valid THEN Return(st.out)
          ELSE IF ip.product % st.product # 0 THEN Fail(st.out)
          ELSE Return(mutable_dim(st.out, 0, st.neg - 1,
                                  DimValue(ip.product \div st.product)))

(***************************************************************************)
(* Cast-9, Shape-1, Size-1, Scatter-9                                      *)
(***************************************************************************)
CastInference(c) ==
  LET r0 == propagateElemTypeFromAttributeToOutput(c, c.outputs, "to", 0)
  IN IF ~r0.ok THEN r0
     ELSE IF hasNInputShapes(c, 1)
       THEN Return(propagateShapeFromInputToOutput(c, r0.out, 0, 0))
     ELSE r0

ShapeInference(c) ==
  LET out0 == set_elem_type(c.outputs, 0, "INT64")
  IN IF ~hasNInputShapes(c, 1) THEN Return(out0)
     ELSE IF getInputType(c, 0).has_shape
       THEN Return(add_dim(out0, 0, DimValue(dim_size(getInputType(c, 0)))))
     ELSE Return(out0)

SizeInference(c) ==
  Return(mutable_shape(set_elem_type(c.outputs, 0, "INT64"), 0))

ScatterInference(c) ==
  LET r0 == propagateElemTypeFromInputToOutput(c, c.outputs, 0, 0)
  IN IF ~r0.ok THEN r0
     ELSE IF hasNInputShapes(c, 1)
       THEN Return(propagateShapeFromInputToOutput(c, r0.out, 0, 0))
     ELSE r0

(***************************************************************************)
(* Gather-1                                                                *)
(***************************************************************************)
\* A variant of the Gather loop whose trailing dimensions start at the
\* gathered axis itself.
RECURSIVE GatherDimsKeepAxis(_, _, _, _, _)
GatherDimsKeepAxis(c, out, axis, out_rank, i) ==
  LET data_shape == getInputType(c, 0)
      indices_shape == getInputType(c, 1)
      q == dim_size(indices_shape)
  IN IF i >= out_rank THEN out
     ELSE LET d == IF i < axis THEN data_shape.dim[i + 1]
                   ELSE IF i >= axis /\ i < axis + q
                     THEN indices_shape.dim[i - axis + 1]
                   ELSE data_shape.dim[i - q + 1]
          IN GatherDimsKeepAxis(c, add_dim(out, 0, d), axis, out_rank, i + 1)

RECURSIVE GatherDims(_, _, _, _, _)
GatherDims(c, out, axis, out_rank, i) ==
  LET data_shape == getInputType(c, 0)
      indices_shape == getInputType(c, 1)
      q == dim_size(indices_shape)
  IN IF i >= out_rank THEN out
     ELSE LET d == IF i < axis THEN data_shape.dim[i + 1]
                   ELSE IF i >= axis /\ i < axis + q
                     THEN indices_shape.dim[i - axis + 1]
                   ELSE data_shape.dim[i - q + 1 + 1]
          IN GatherDims(c, add_dim(out, 0, d), axis, out_rank, i + 1)

GatherInference(c) ==
  LET r0 == propagateElemTypeFromInputToOutput(c, c.outputs, 0, 0)
  IN IF ~r0.ok THEN r0
     ELSE IF ~hasNInputShapes(c, 2) THEN r0
     ELSE LET r == dim_size(getInputType(c, 0))
              q == dim_size(getInputType(c, 1))
              axis0 == getAttribute(c, "axis", 0)
              axis == IF axis0 < 0 THEN axis0 + r ELSE axis0
              out_rank == q + r - 1
          IN IF r < 1 THEN Fail(r0.out)
             ELSE IF axis0 < -r \/ axis0 >= r THEN Fail(r0.out)
             ELSE Return(GatherDims(c,
                           IF out_rank = 0 THEN mutable_shape(r0.out, 0)
                                           ELSE r0.out,
                           axis, out_rank, 0))

(***************************************************************************)
(* Concat-4                                                                *)
(***************************************************************************)
\* The loops over the inputs i and their dimensions j.  st holds the output
\* slots, total_length, all_lengths_known and whether the loop threw.
\* A variant of the Concat loop that stops reconciling the other axes once a
\* length of the concat axis is unknown.
RECURSIVE ConcatDimsUntilUnknown(_, _, _, _, _, _)
ConcatDimsUntilUnknown(c, rank, axis, i, j, st) ==
  IF i >= getNumInputs(c) THEN st
  ELSE
    LET shape == getInputType(c, i)
    IN IF j = 0 /\ dim_size(shape) # rank THEN [st EXCEPT !.fail = TRUE]
       ELSE IF j >= rank
         THEN ConcatDimsUntilUnknown(c, rank, axis, i + 1, 0, st)
       ELSE IF j = axis
         THEN IF has_dim_value(shape.dim[j + 1])
                THEN ConcatDimsUntilUnknown(c, rank, axis, i, j + 1,
                       [st EXCEPT !.total = @ + shape.dim[j + 1].v])
                ELSE ConcatDimsUntilUnknown(c, rank, axis, i, j + 1,
                       [st EXCEPT !.known = FALSE])
       ELSE IF ~st.known
         THEN ConcatDimsUntilUnknown(c, rank, axis, i, j + 1, st)
       ELSE LET m == mergeInDimensionInfo(shape.dim[j + 1],
                                          st.out[1].dim[j + 1])
            IN IF ~m.ok THEN [st EXCEPT !.fail = TRUE]
               ELSE ConcatDimsUntilUnknown(c, rank, axis, i, j + 1,
                      [st EXCEPT !.out = mutable_dim(st.out, 0, j, m.d)])

RECURSIVE ConcatDims(_, _, _, _, _, _)
ConcatDims(c, rank, axis, i, j, st) ==
  IF i >= getNumInputs(c) THEN st
  ELSE
    LET shape == getInputType(c, i)
    IN IF j = 0 /\ dim_size(shape) # rank THEN [st EXCEPT !.fail = TRUE]
       ELSE IF j >= rank THEN ConcatDims(c, rank, axis, i + 1, 0, st)
       ELSE IF j = axis
         THEN IF has_dim_value(shape.dim[j + 1])
                THEN ConcatDims(c, rank, axis, i, j + 1,
                       [st EXCEPT !.total = @ + shape.dim[j + 1].v])
                ELSE ConcatDims(c, rank, axis, i, j + 1,
                       [st EXCEPT !.known = FALSE])
       ELSE LET m == mergeInDimensionInfo(shape.dim[j + 1],
                                          st.out[1].dim[j + 1])
            IN IF ~m.ok THEN [st EXCEPT !.fail = TRUE]
               ELSE ConcatDims(c, rank, axis, i, j + 1,
                      [st EXCEPT !.out = mutable_dim(st.out, 0, j, m.d)])

\* A variant that counts a negative axis from the last dimension.
ConcatInferenceNormalized(c) ==
  LET r0 == propagateElemTypeFromInputToOutput(c, c.outputs, 0, 0)
      numInputs == getNumInputs(c)
  IN IF ~r0.ok THEN r0
     ELSE IF numInputs < 1 \/ ~hasNInputShapes(c, numInputs) THEN r0
     ELSE
       LET rank == dim_size(getInputType(c, 0))
           axisAttr == c.attrs["axis"]
           axis == IF axisAttr.i < 0 THEN axisAttr.i + rank ELSE axisAttr.i
           st == ConcatDims(c, rank, axis, 0, 0,
                   [out |-> AddDims(mutable_shape(r0.out, 0), 0, rank),
                    total |-> 0, known |-> TRUE, fail |-> FALSE])
       IN IF ~axisAttr.has THEN Fail(r0.out)
          ELSE IF rank <= axis THEN Fail(r0.out)
          ELSE IF axis < 0 THEN Fail(r0.out)
          ELSE IF st.fail THEN Fail(st.out)
          ELSE IF st.known
            THEN Return(mutable_dim(st.out, 0, axis, DimValue(st.total)))
          ELSE Return(st.out)

\* A variant that writes the total length exactly when some length of the
\* axis is unknown.
ConcatInferenceInverted(c) ==
  LET r0 == propagateElemTypeFromInputToOutput(c, c.outputs, 0, 0)
      numInputs == getNumInputs(c)
  IN IF ~r0.ok THEN r0
     ELSE IF numInputs < 1 \/ ~hasNInputShapes(c, numInputs) THEN r0
     ELSE
       LET rank == dim_size(getInputType(c, 0))
           axisAttr == c.attrs["axis"]
           axis == axisAttr.i
           st == ConcatDims(c, rank, axis, 0, 0,
                   [out |-> AddDims(mutable_shape(r0.out, 0), 0, rank),
                    total |-> 0, known |-> TRUE, fail |-> FALSE])
       IN IF ~axisAttr.has THEN Fail(r0.out)
          ELSE IF rank <= axis THEN Fail(r0.out)
          ELSE IF axis < 0 THEN r0
          ELSE IF st.fail THEN Fail(st.out)
          ELSE IF ~st.known
            THEN Return(mutable_dim(st.out, 0, axis, DimValue(st.total)))
          ELSE Return(st.out)

ConcatInference(c) ==
  LET r0 == propagateElemTypeFromInputToOutput(c, c.outputs, 0, 0)
      numInputs == getNumInputs(c)
  IN IF ~r0.ok THEN r0
     ELSE IF numInputs < 1 \/ ~hasNInputShapes(c, numInputs) THEN r0
     ELSE
       LET rank == dim_size(getInputType(c, 0))
           axisAttr == c.attrs["axis"]
           axis == axisAttr.i
           st == ConcatDims(c, rank, axis, 0, 0,
                   [out |-> AddDims(mutable_shape(r0.out, 0), 0, rank),
                    total |-> 0, known |-> TRUE, fail |-> FALSE])
       IN IF ~axisAttr.has THEN Fail(r0.out)
          ELSE IF rank <= axis THEN Fail(r0.out)
          ELSE IF axis < 0 THEN r0
          ELSE IF st.fail THEN Fail(st.out)
          ELSE IF st.known
            THEN Return(mutable_dim(st.out, 0, axis, DimValue(st.total)))
          ELSE Return(st.out)

(***************************************************************************)
(* Split-2                                                                 *)
(***************************************************************************)
\* A variant whose loop over the outputs skips the first one.
RECURSIVE SplitElemTypesFromOne(_, _, _)
SplitElemTypesFromOne(c, out, i) ==
  IF i + 1 >= getNumOutputs(c) THEN Return(out)
  ELSE LET r == propagateElemTypeFromInputToOutput(c, out, 0, i + 1)
       IN IF ~r.ok THEN r ELSE SplitElemTypesFromOne(c, r.out, i + 1)

RECURSIVE SplitElemTypes(_, _, _)
SplitElemTypes(c, out, i) ==
  IF i >= getNumOutputs(c) THEN Return(out)
  ELSE LET r == propagateElemTypeFromInputToOutput(c, out, 0, i)
       IN IF ~r.ok THEN r ELSE SplitElemTypes(c, r.out, i + 1)

\* A variant that gives the left-over elements to the last chunks.
SplitSizesLargerLast(splitDimValue, numOutputs) ==
  LET chunkSize == splitDimValue \div numOutputs
      leftOver == splitDimValue - (chunkSize * numOutputs)
  IN [i \in 1..numOutputs |->
        IF i > numOutputs - leftOver THEN chunkSize + 1 ELSE chunkSize]

\* split[i] = i < leftOver ? chunkSize + 1 : chunkSize
SplitSizes(splitDimValue, numOutputs) ==
  LET chunkSize == splitDimValue \div numOutputs
      leftOver == splitDimValue - (chunkSize * numOutputs)
  IN [i \in 1..numOutputs |->
        IF (i - 1) < leftOver THEN chunkSize + 1 ELSE chunkSize]

RECURSIVE SplitShapes(_, _, _, _, _)
SplitShapes(c, out, axis, split, i) ==
  IF i >= getNumOutputs(c) THEN out
  ELSE SplitShapes(c,
         mutable_dim(assign_shape(out, i, getInputType(c, 0)), i, axis,
                     DimValue(split[i + 1])),
         axis, split, i + 1)

SplitInference(c) ==
  LET r0 == SplitElemTypes(c, c.outputs, 0)
  IN IF ~r0.ok THEN r0
     ELSE IF ~hasNInputShapes(c, 1) THEN r0
     ELSE IF getRepeatedAttribute(c, "split").has THEN r0
     ELSE IF ~getInputType(c, 0).has_shape THEN r0
     ELSE
       LET shape == getInputType(c, 0)
           r == dim_size(shape)
           axis0 == getAttribute(c, "axis", 0)
           axis == IF axis0 < 0 THEN axis0 + r ELSE axis0
       IN IF axis0 < -r \/ axis0 >= r THEN Fail(r0.out)
          ELSE IF ~has_dim_value(shape.dim[axis + 1]) THEN r0
          ELSE Return(SplitShapes(c, r0.out, axis,
                        SplitSizes(shape.dim[axis + 1].v, getNumOutputs(c)),
                        0))

(***************************************************************************)
(* Slice-10                                                                *)
(***************************************************************************)
clamp(val, low, high) ==
  IF val < low THEN low ELSE IF val > high THEN high ELSE val

\* A variant that truncates the quotient toward zero instead of rounding up.
CeilDivTruncated(num, den) ==
  LET q == (IF num < 0 THEN -num ELSE num) \div (IF den < 0 THEN -den ELSE den)
  IN IF (num < 0) = (den < 0) THEN q ELSE -q

\* static_cast<int64_t>(ceil(1.0 * num / den)), den # 0
CeilDiv(num, den) ==
  IF den > 0 THEN -((-num) \div den) ELSE -(num \div (-den))

\* get_initializer_data accepts INT64 and INT32 data only.
AcceptedIndexType(initializer) ==
  initializer.data_type \in {"INT64", "INT32"}

\* The output length of one sliced axis of known length.
SliceLength(input_dim_value, start0, end0, step) ==
  LET start1 == IF start0 < 0 THEN start0 + input_dim_value ELSE start0
      start == IF step < 0 THEN clamp(start1, 0, input_dim_value - 1)
                           ELSE clamp(start1, 0, input_dim_value)
      end1 == IF end0 < 0 THEN end0 + input_dim_value ELSE end0
      end == IF step < 0 THEN clamp(end1, -1, input_dim_value)
                         ELSE clamp(end1, 0, input_dim_value)
      temp == CeilDiv(end - start, step)
  IN IF temp < 0 THEN 0 ELSE temp

\* The first loop: one output dimension per input dimension.
RECURSIVE SliceCopyDims(_, _, _)
SliceCopyDims(c, out, i) ==
  LET input_shape == getInputType(c, 0)
  IN IF i >= dim_size(input_shape) THEN out
     ELSE LET input_dim == input_shape.dim[i + 1]
              output_dim ==
                IF has_dim_value(input_dim) THEN DimValue(input_dim.v)
                ELSE IF has_dim_param(input_dim) THEN DimParam(input_dim.v)
                ELSE NoDim
          IN SliceCopyDims(c, add_dim(out, 0, output_dim), i + 1)

\* A variant that skips an axis of unknown length before it looks for
\* duplicates.
RECURSIVE SliceAxesKnownOnly(_, _, _, _, _, _, _)
SliceAxesKnownOnly(c, starts, ends, axes, steps, axis_index, st) ==
  IF axis_index >= Len(axes) THEN st
  ELSE
    LET input_rank == dim_size(getInputType(c, 0))
        axis == IF axes[axis_index + 1] < 0
                  THEN axes[axis_index + 1] + input_rank
                  ELSE axes[axis_index + 1]
    IN IF axis >= input_rank \/ axis < 0 THEN [st EXCEPT !.fail = TRUE]
       ELSE IF ~has_dim_value(getInputType(c, 0).dim[axis + 1])
         THEN SliceAxesKnownOnly(c, starts, ends, axes, steps, axis_index + 1,
                                 st)
       ELSE IF axis \in st.unique_axes THEN [st EXCEPT !.fail = TRUE]
       ELSE IF steps[axis_index + 1] = 0 THEN [st EXCEPT !.fail = TRUE]
       ELSE SliceAxesKnownOnly(c, starts, ends, axes, steps, axis_index + 1,
              [st EXCEPT !.unique_axes = @ \cup {axis},
                         !.out = mutable_dim(st.out, 0, axis,
                           DimValue(SliceLength(
                             getInputType(c, 0).dim[axis + 1].v,
                             starts[axis_index + 1], ends[axis_index + 1],
                             steps[axis_index + 1])))])

\* The loop over axes.  st holds the output slots, unique_axes and whether
\* the loop threw.
RECURSIVE SliceAxes(_, _, _, _, _, _, _)
SliceAxes(c, starts, ends, axes, steps, axis_index, st) ==
  IF axis_index >= Len(axes) THEN st
  ELSE
    LET input_rank == dim_size(getInputType(c, 0))
        axis == IF axes[axis_index + 1] < 0
                  THEN axes[axis_index + 1] + input_rank
                  ELSE axes[axis_index + 1]
    IN IF axis >= input_rank \/ axis < 0 THEN [st EXCEPT !.fail = TRUE]
       ELSE IF axis \in st.unique_axes THEN [st EXCEPT !.fail = TRUE]
       ELSE
         LET st1 == [st EXCEPT !.unique_axes = @ \cup {axis}]
             input_dim == getInputType(c, 0).dim[axis + 1]
             step == steps[axis_index + 1]
         IN IF ~has_dim_value(input_dim)
              THEN SliceAxes(c, starts, ends, axes, steps, axis_index + 1, st1)
            ELSE IF step = 0 THEN [st1 EXCEPT !.fail = TRUE]
            ELSE SliceAxes(c, starts, ends, axes, steps, axis_index + 1,
                   [st1 EXCEPT !.out = mutable_dim(st1.out, 0, axis,
                      DimValue(SliceLength(input_dim.v, starts[axis_index + 1],
                                           ends[axis_index + 1], step)))])

SliceInference(c) ==
  LET num_inputs == getNumInputs(c)
      r0 == propagateElemTypeFromInputToOutput(c, c.outputs, 0, 0)
  IN IF num_inputs # 3 /\ num_inputs # 4 /\ num_inputs # 5 THEN Fail(c.outputs)
     ELSE IF ~r0.ok THEN r0
     ELSE IF ~hasNInputShapes(c, 1) THEN r0
     ELSE
       LET startsInitializer == getInputData(c, 1)
           endsInitializer == getInputData(c, 2)
           hasAxes == hasInputShape(c, 3)
           hasSteps == hasInputShape(c, 4)
       IN IF ~startsInitializer.avail \/ ~endsInitializer.avail
               \/ (hasAxes /\ ~getInputData(c, 3).avail)
               \/ (hasSteps /\ ~getInputData(c, 4).avail)
            THEN r0
          ELSE IF startsInitializer.data_type = "UNDEFINED" THEN r0
          ELSE IF ~AcceptedIndexType(startsInitializer) THEN Fail(r0.out)
          ELSE IF ~AcceptedIndexType(endsInitializer) THEN Fail(r0.out)
          ELSE
            LET starts == startsInitializer.vals
                ends == endsInitializer.vals
                axes == IF hasAxes THEN getInputData(c, 3).vals
                        ELSE [q \in 1..Len(starts) |-> q - 1]
                steps == IF hasSteps THEN getInputData(c, 4).vals
                         ELSE [q \in 1..Len(starts) |-> 1]
            IN IF Len(starts) # Len(ends) THEN Fail(r0.out)
               ELSE IF hasAxes /\ ~AcceptedIndexType(getInputData(c, 3))
                 THEN Fail(r0.out)
               ELSE IF hasAxes /\ Len(axes) # Len(starts) THEN Fail(r0.out)
               ELSE IF hasSteps /\ ~AcceptedIndexType(getInputData(c, 4))
                 THEN Fail(r0.out)
               ELSE IF hasSteps /\ Len(steps) # Len(axes) THEN Fail(r0.out)
               ELSE
                 LET st == SliceAxes(c, starts, ends, axes, steps, 0,
                             [out |-> SliceCopyDims(c, r0.out, 0),
                              unique_axes |-> {}, fail |-> FALSE])
                 IN IF st.fail THEN Fail(st.out) ELSE Return(st.out)

(***************************************************************************)
(* Transpose-1                                                             *)
(***************************************************************************)
\* appendSingleDimCopiedFromInputTypeToOutputType for every entry of perm
RECURSIVE TransposeDims(_, _, _, _)
TransposeDims(c, out, perm, i) ==
  IF i >= Len(perm) THEN out
  ELSE TransposeDims(c,
         add_dim(out, 0, getInputType(c, 0).dim[perm[i + 1] + 1]),
         perm, i + 1)

TransposeInference(c) ==
  LET r0 == propagateElemTypeFromInputToOutput(c, c.outputs, 0, 0)
  IN IF ~r0.ok THEN r0
     ELSE IF ~hasNInputShapes(c, 1) THEN r0
     ELSE
       LET shape == getInputType(c, 0)
           permAttr == getRepeatedAttribute(c, "perm")
           perm == IF ~permAttr.has
                     THEN [q \in 1..dim_size(shape) |-> dim_size(shape) - q]
                     ELSE permAttr.ints
       IN IF permAttr.has
               /\ \E q \in 1..Len(perm) :
                     ~(0 <= perm[q] /\ perm[q] < dim_size(shape))
            THEN Fail(r0.out)
            ELSE Return(TransposeDims(c, r0.out, perm, 0))

(***************************************************************************)
(* OneHot-9                                                                *)
(***************************************************************************)
\* A variant of the OneHot loop that puts the new dimension last whatever the
\* axis is.
RECURSIVE OneHotDimsAppended(_, _, _, _, _)
OneHotDimsAppended(c, out, axis, out_rank, i) ==
  LET indices_shape == getInputType(c, 0)
  IN IF i >= out_rank THEN out
     ELSE LET src == IF i < out_rank - 1 THEN indices_shape.dim[i + 1]
                     ELSE NoDim
          IN OneHotDimsAppended(c, add_dim(out, 0, src), axis, out_rank, i + 1)

RECURSIVE OneHotDims(_, _, _, _, _)
OneHotDims(c, out, axis, out_rank, i) ==
  LET indices_shape == getInputType(c, 0)
  IN IF i >= out_rank THEN out
     ELSE LET src == IF i < axis THEN indices_shape.dim[i + 1]
                     ELSE IF i > axis THEN indices_shape.dim[i - 1 + 1]
                     ELSE NoDim
              dim == IF has_dim_value(src) THEN DimValue(src.v)
                     ELSE IF has_dim_param(src) THEN DimParam(src.v)
                     ELSE NoDim
          IN OneHotDims(c, add_dim(out, 0, dim), axis, out_rank, i + 1)

\* The checks on the shapes of 'depth' (input 1) and 'values' (input 2).
OneHotVectorOk(c, n, elements) ==
  hasInputShape(c, n) =>
    /\ dim_size(getInputType(c, n)) = 1
    /\ (has_dim_value(getInputType(c, n).dim[1])
          => getInputType(c, n).dim[1].v = elements)

OneHotInference(c) ==
  IF getNumInputs(c) # 3 THEN Fail(c.outputs)
  ELSE IF ~OneHotVectorOk(c, 1, 1) THEN Fail(c.outputs)
  ELSE IF ~OneHotVectorOk(c, 2, 2) THEN Fail(c.outputs)
  ELSE
    LET r0 == propagateElemTypeFromInputToOutput(c, c.outputs, 2, 0)
    IN IF ~r0.ok THEN r0
       ELSE IF ~hasInputShape(c, 0) THEN r0
       ELSE
         LET r == dim_size(getInputType(c, 0))
             out_rank == r + 1
             axis0 == getAttribute(c, "axis", -1)
             axis == IF axis0 < 0 THEN axis0 + out_rank ELSE axis0
         IN IF r < 1 THEN Fail(r0.out)
            ELSE IF axis0 < -out_rank \/ axis0 >= out_rank THEN Fail(r0.out)
            ELSE Return(OneHotDims(c, mutable_shape(r0.out, 0), axis,
                                   out_rank, 0))

(***************************************************************************)
(* IsNaN-9, IsInf-10, NonZero-9, ReverseSequence-10                        *)
(***************************************************************************)
IsNaNInference(c) ==
  LET out0 == updateOutputElemType(c.outputs, 0, "BOOL")
  IN IF hasInputShape(c, 0)
       THEN Return(propagateShapeFromInputToOutput(c, out0, 0, 0))
       ELSE Return(out0)

IsInfInference(c) ==
  LET out0 == updateOutputElemType(c.outputs, 0, "BOOL")
  IN IF hasInputShape(c, 0)
       THEN Return(propagateShapeFromInputToOutput(c, out0, 0, 0))
       ELSE Return(out0)

NonZeroInference(c) == Return(updateOutputElemType(c.outputs, 0, "INT64"))

ReverseSequenceInference(c) ==
  LET r0 == propagateElemTypeFromInputToOutput(c, c.outputs, 0, 0)
  IN IF ~r0.ok THEN r0
     ELSE IF ~hasNInputShapes(c, 2) THEN r0
     ELSE IF dim_size(getInputType(c, 0)) < 2 THEN Fail(r0.out)
     ELSE IF dim_size(getInputType(c, 1)) # 1 THEN Fail(r0.out)
     ELSE Return(propagateShapeFromInputToOutput(c, r0.out, 0, 0))

(***************************************************************************)
(* Unique-11                                                               *)
(***************************************************************************)
\* indices, inverse_indices and counts: INT64, one more dimension each.
RECURSIVE UniqueAux(_, _, _)
UniqueAux(c, out, j) ==
  IF j > 3 THEN out
  ELSE IF getNumOutputs(c) >= j + 1
    THEN UniqueAux(c,
           add_dim(updateOutputElemType(out, j, "INT64"), j, NoDim), j + 1)
  ELSE UniqueAux(c, out, j + 1)

RECURSIVE UniqueDims(_, _, _, _)
UniqueDims(c, out, axis, i) ==
  LET input_shape == getInputType(c, 0)
  IN IF i >= dim_size(input_shape) THEN out
     ELSE UniqueDims(c,
            add_dim(out, 0,
                    IF i # axis THEN input_shape.dim[i + 1] ELSE NoDim),
            axis, i + 1)

UniqueInference(c) ==
  LET r0 == propagateElemTypeFromInputToOutput(c, c.outputs, 0, 0)
      axisAttr == c.attrs["axis"]
  IN IF ~r0.ok THEN r0
     ELSE LET out1 == UniqueAux(c, r0.out, 1)
          IN IF ~axisAttr.has THEN Return(add_dim(out1, 0, NoDim))
             ELSE Return(UniqueDims(c, out1, axisAttr.i, 0))

(***************************************************************************)
(* Where-9, with the numpy-style multidirectional broadcast of the shapes  *)
(* of condition, X and Y.                                                  *)
(***************************************************************************)
\* The dimensions the shapes contribute to result axis i (counted from the
\* front of a result of rank n): a shape of lower rank contributes nothing
\* to the leading axes.
Contributing(shapes, n, i) ==
  {q \in 1..Len(shapes) : i > n - Len(shapes[q])}

ContributedDim(shapes, n, i, q) == shapes[q][i - (n - Len(shapes[q]))]

MaxOf(S) == CHOOSE x \in S : \A y \in S : y <= x

\* One axis of the broadcast: a known value > 1 wins and must agree with
\* every other known value > 1; all 1 (or absent) gives 1; a lone parameter
\* among 1s propagates; anything else is unknown.
BroadcastDim(shapes, n, i) ==
  LET ds == {ContributedDim(shapes, n, i, q) : q \in Contributing(shapes, n, i)}
      big == {d.v : d \in {e \in ds : has_dim_value(e) /\ e.v > 1}}
      params == {d \in ds : has_dim_param(d)}
      others == {d \in ds : ~has_dim_value(d) /\ ~has_dim_param(d)}
               \cup {d \in ds : has_dim_value(d) /\ d.v < 1}
  IN IF Cardinality(big) > 1 THEN [ok |-> FALSE, d |-> NoDim]
     ELSE IF Cardinality(big) = 1
       THEN [ok |-> TRUE, d |-> DimValue(CHOOSE v \in big : TRUE)]
     ELSE IF params = {} /\ others = {} THEN [ok |-> TRUE, d |-> DimValue(1)]
     ELSE IF Cardinality(params) = 1 /\ others = {}
       THEN [ok |-> TRUE, d |-> CHOOSE d \in params : TRUE]
     ELSE [ok |-> TRUE, d |-> NoDim]

RECURSIVE BroadcastDims(_, _, _, _, _)
BroadcastDims(shapes, n, out, j, i) ==
  IF i > n THEN Return(out)
  ELSE LET b == BroadcastDim(shapes, n, i)
       IN IF ~b.ok THEN Fail(out)
          ELSE BroadcastDims(shapes, n, add_dim(out, j, b.d), j, i + 1)

multidirectionalBroadcastShapeInference(shapes, out, j) ==
  BroadcastDims(shapes, MaxOf({Len(shapes[q]) : q \in 1..Len(shapes)}),
                mutable_shape(out, j), j, 1)

\* A variant of Where that broadcasts X and Y only.
WhereInferenceOfBranches(c) ==
  LET r0 == propagateElemTypeFromInputToOutput(c, c.outputs, 1, 0)
  IN IF ~r0.ok THEN r0
     ELSE IF hasNInputShapes(c, 3)
       THEN multidirectionalBroadcastShapeInference(
              <<getInputType(c, 1).dim, getInputType(c, 2).dim>>, r0.out, 0)
     ELSE r0

WhereInference(c) ==
  LET r0 == propagateElemTypeFromInputToOutput(c, c.outputs, 1, 0)
  IN IF ~r0.ok THEN r0
     ELSE IF hasNInputShapes(c, 3)
       THEN multidirectionalBroadcastShapeInference(
              <<getInputType(c, 0).dim, getInputType(c, 1).dim,
                getInputType(c, 2).dim>>, r0.out, 0)
     ELSE r0

(***************************************************************************)
(* SpaceToDepth-1, DepthToSpace-11                                         *)
(***************************************************************************)
\* Dimension * int64 and Dimension / int64: a known value is multiplied or
\* divided (integer division); any other dimension is kept when the factor
\* is 1 and is unset otherwise.
operator_mul(dim1, dim2) ==
  IF has_dim_value(dim1) THEN DimValue(dim1.v * dim2)
  ELSE IF dim2 = 1 THEN dim1
  ELSE NoDim

operator_div(dim1, dim2) ==
  IF has_dim_value(dim1) THEN DimValue(dim1.v \div dim2)
  ELSE IF dim2 = 1 THEN dim1
  ELSE NoDim

\* updateOutputShape(ctx, j, {d1, ..., dn}): the dimensions are added to the
\* shape of output j.
RECURSIVE updateOutputShape(_, _, _)
updateOutputShape(out, j, dims) ==
  IF dims = <<>> THEN mutable_shape(out, j)
  ELSE updateOutputShape(add_dim(out, j, Head(dims)), j, Tail(dims))

\* A variant of SpaceToDepth that accepts an input of any rank >= 4.
SpaceToDepthInferenceLenient(c) ==
  LET r0 == propagateElemTypeFromInputToOutput(c, c.outputs, 0, 0)
      blocksize == getAttribute(c, "blocksize", 0)
      input_shape == getInputType(c, 0)
  IN IF ~r0.ok THEN r0
     ELSE IF blocksize <= 0 THEN Fail(r0.out)
     ELSE IF ~hasInputShape(c, 0) THEN r0
     ELSE IF dim_size(input_shape) >= 4
       THEN Return(updateOutputShape(r0.out, 0,
              <<input_shape.dim[1],
                operator_mul(input_shape.dim[2], blocksize * blocksize),
                operator_div(input_shape.dim[3], blocksize),
                operator_div(input_shape.dim[4], blocksize)>>))
     ELSE r0

SpaceToDepthInference(c) ==
  LET r0 == propagateElemTypeFromInputToOutput(c, c.outputs, 0, 0)
      blocksize == getAttribute(c, "blocksize", 0)
      input_shape == getInputType(c, 0)
  IN IF ~r0.ok THEN r0
     ELSE IF blocksize <= 0 THEN Fail(r0.out)
     ELSE IF ~hasInputShape(c, 0) THEN r0
     ELSE IF dim_size(input_shape) = 4
       THEN Return(updateOutputShape(r0.out, 0,
              <<input_shape.dim[1],
                operator_mul(input_shape.dim[2], blocksize * blocksize),
                operator_div(input_shape.dim[3], blocksize),
                operator_div(input_shape.dim[4], blocksize)>>))
     ELSE Fail(r0.out)

DepthToSpaceInference(c) ==
  LET r0 == propagateElemTypeFromInputToOutput(c, c.outputs, 0, 0)
      blocksize == getAttribute(c, "blocksize", 0)
      input_shape == getInputType(c, 0)
  IN IF ~r0.ok THEN r0
     ELSE IF blocksize <= 0 THEN Fail(r0.out)
     ELSE IF ~hasInputShape(c, 0) THEN r0
     ELSE IF dim_size(input_shape) = 4
       THEN Return(updateOutputShape(r0.out, 0,
              <<input_shape.dim[1],
                operator_div(input_shape.dim[2], blocksize * blocksize),
                operator_mul(input_shape.dim[3], blocksize),
                operator_mul(input_shape.dim[4], blocksize)>>))
     ELSE Fail(r0.out)

(***************************************************************************)
(* Dispatch: the inference function registered for each operator.          *)
(***************************************************************************)
Context == [inputs |-> inputs, data |-> data, attrs |-> attrs,
            outputs |-> outputs]

(***************************************************************************)
(* The contexts the inference functions are run on.                        *)
(***************************************************************************)
NoData == [avail |-> FALSE, data_type |-> "UNDEFINED", vals |-> <<>>]

ConstData(t, xs) == [avail |-> TRUE, data_type |-> t, vals |-> xs]

AttrNames == {"axis", "axes", "pads", "split", "perm", "to", "blocksize"}

NoAttrs == [n \in AttrNames |-> NoAttr]

OneAttr(name, a) == [NoAttrs EXCEPT ![name] = a]

\* Known lengths, a symbolic length and an unknown length.
Dims(values) == {DimValue(n) : n \in values} \cup {DimParam(1), NoDim}

\* Lists of n elements of S: the first element free, the others equal to each
\* other (every list, for n <= 2).
Lists(S, n) ==
  IF n = 0 THEN {<<>>}
  ELSE {[q \in 1..n |-> IF q = 1 THEN a ELSE b] : a \in S, b \in S}

ListsUpTo(S, n) == UNION {Lists(S, m) : m \in 0..n}

\* Ranked tensor types of rank lo..hi over the dimensions D, element type e.
Ranked(e, D, lo, hi) ==
  {Tensor(e, s) : s \in UNION {Lists(D, r) : r \in lo..hi}}

Vals == (-MaxVal)..MaxVal

ThinDims == Dims({1, MaxDim})

\* Input types of the cross-operator specification: ranked, unranked, and
\* without an element type.
ThinTypes ==
  Ranked("FLOAT", ThinDims, 0, MaxRank)
    \cup {Unranked("FLOAT"), Unranked("UNDEFINED")}

WhereTypes ==
  Ranked("FLOAT", Dims({1, MaxDim}), 0, 1)
    \cup {Tensor("FLOAT", <<DimValue(MaxDim), DimValue(1)>>),
          Unranked("FLOAT"), Unranked("UNDEFINED")}

\* A vector-shaped (rank 1) input type of n elements.
Vector(e, n) == Tensor(e, <<DimValue(n)>>)

\* Output slots as the caller hands them over: default-constructed, or
\* already declared with a rank.
Declared == Tensor("FLOAT", [q \in 1..(MaxRank + 1) |-> NoDim])

FreshOutputs(n) == [q \in 1..n |-> FreshType]

StartOutputs(n) == {FreshOutputs(n), [q \in 1..n |-> Declared]}

NoBase == [valid |-> FALSE, ok |-> FALSE, kind |-> "none", out |-> <<>>]

\* The state after the caller built the context of a node.
Start(o, ins, dat, at, outs) ==
  /\ op = o
  /\ inputs = ins
  /\ data = dat
  /\ attrs = at
  /\ outputs = outs
  /\ status = "ready"
  /\ calls = 0
  /\ prev = outs
  /\ base = NoBase
  /\ refined = 0

\* Nodes with one data input, no constant input and one optional attribute.
UnaryInit(o, types, name, values, outs) ==
  \E x \in types, a \in values, y \in outs :
    Start(o, <<x>>, <<NoData>>, OneAttr(name, a), y)

IntAttrs(lo, hi) == {NoAttr} \cup {IntAttr(x) : x \in lo..hi}

IntsAttrs(S, n) == {NoAttr} \cup {IntsAttr(l) : l \in ListsUpTo(S, n)}

\* Pad: per-axis pads of every sign, a wrong number of pads, no pads.
PadInit(types, outs) ==
  \E x \in types, y \in outs :
    \E a \in {NoAttr, IntsAttr(<<0>>)}
              \cup {IntsAttr(b \o e) : b \in Lists(Vals, dim_size(x)),
                                       e \in Lists(Vals, dim_size(x))} :
      Start("Pad", <<x>>, <<NoData>>, OneAttr("pads", a), y)

\* Squeeze, Unsqueeze: axes in any order, repeated, out of range, or absent.
SqueezeInit(types, outs) ==
  UnaryInit("Squeeze", types, "axes", IntsAttrs(-1..MaxRank, MaxRank), outs)

UnsqueezeInit(types, outs) ==
  UnaryInit("Unsqueeze", types, "axes", IntsAttrs(0..(MaxRank + 1), MaxRank),
            outs)

CastInit(types, outs) ==
  UnaryInit("Cast", types, "to", {NoAttr, IntAttr(0), IntAttr(1), IntAttr(7)},
            outs)

TransposeInit(types, outs) ==
  UnaryInit("Transpose", types, "perm", IntsAttrs(0..MaxRank, MaxRank), outs)

PlainInit(o, types, outs) == UnaryInit(o, types, "axis", {NoAttr}, outs)

\* Scatter: data, indices, updates; ReverseSequence: input, sequence_lens.
ScatterInit(types, outs) ==
  \E x \in types, y \in outs :
    Start("Scatter", <<x, Unranked("INT64"), Unranked("FLOAT")>>,
          <<NoData, NoData, NoData>>, NoAttrs, y)

ReverseSequenceInit(types, outs) ==
  \E x \in types, y \in outs :
    \E l \in {Unranked("INT64"), Tensor("INT64", <<NoDim>>),
              Tensor("INT64", <<NoDim, NoDim>>)} :
      Start("ReverseSequence", <<x, l>>, <<NoData, NoData>>, NoAttrs, y)

\* Reshape: data and a target shape that is a constant or not.
TargetVals == (-2)..MaxDim

ReshapeInit(types, outs) ==
  \E x \in types, y \in outs :
    \/ Start("Reshape", <<x, Unranked("INT64")>>, <<NoData, NoData>>,
             NoAttrs, y)
    \/ \E l \in ListsUpTo(TargetVals, MaxRank + 1) :
         Start("Reshape", <<x, Vector("INT64", Len(l))>>,
               <<NoData, ConstData("INT64", l)>>, NoAttrs, y)

\* Concat: one or two inputs (variadic), axis absent, negative or too large.
ConcatInit(types, outs) ==
  \E a \in IntAttrs(-1, MaxRank), y \in outs :
    \/ \E x \in types :
         Start("Concat", <<x>>, <<NoData>>, OneAttr("axis", a), y)
    \/ \E x1 \in types, x2 \in types :
         Start("Concat", <<x1, x2>>, <<NoData, NoData>>, OneAttr("axis", a), y)

\* Split: one to MaxRank + 1 outputs, with or without the 'split' attribute.
SplitInit(types, declared) ==
  \E x \in types, a \in IntAttrs(-(MaxRank + 1), MaxRank),
     n \in 1..(MaxRank + 1), sp \in {NoAttr, IntsAttr(<<1>>)} :
    \E y \in IF declared THEN StartOutputs(n) ELSE {FreshOutputs(n)} :
      Start("Split", <<x>>, <<NoData>>,
            [NoAttrs EXCEPT !["axis"] = a, !["split"] = sp], y)

\* Gather: data and indices.
GatherInit(types, outs) ==
  \E x \in types, i \in types, a \in IntAttrs(-(MaxRank + 1), MaxRank),
     y \in outs :
    Start("Gather", <<x, i>>, <<NoData, NoData>>, OneAttr("axis", a), y)

\* Tile: 'repeats' is a constant or not, of type int64 or not, and its type
\* slot records a shape or not.
RepeatsTypes(n) ==
  {Unranked("INT64"), Vector("INT64", n), Tensor("INT64", <<NoDim, NoDim>>)}

TileInit(types, outs) ==
  \E x \in types, y \in outs :
    \/ \E t \in RepeatsTypes(dim_size(x)) :
         Start("Tile", <<x, t>>, <<NoData, NoData>>, NoAttrs, y)
    \/ \E l \in ListsUpTo((-1)..MaxVal, MaxRank), e \in {"INT64", "INT32"} :
         \E t \in RepeatsTypes(Len(l)) :
           Start("Tile", <<x, t>>, <<NoData, ConstData(e, l)>>, NoAttrs, y)

\* OneHot: indices, depth, values.
OneHotInit(types, outs) ==
  \E x \in types, a \in IntAttrs(-(MaxRank + 2), MaxRank + 1), y \in outs :
    \/ \E d \in {Unranked("INT64"), Vector("INT64", 1), Vector("INT64", 2),
                 Tensor("INT64", <<>>)},
          v \in {Unranked("FLOAT"), Unranked("UNDEFINED"), Vector("FLOAT", 2),
                 Vector("FLOAT", 3)} :
         Start("OneHot", <<x, d, v>>, <<NoData, NoData, NoData>>,
               OneAttr("axis", a), y)
    \/ Start("OneHot", <<x, Unranked("INT64")>>, <<NoData, NoData>>,
             OneAttr("axis", a), y)

\* Unique: one to four outputs.
UniqueInit(types, declared) ==
  \E x \in types, a \in IntAttrs(-MaxRank, MaxRank), n \in 1..4 :
    \E y \in IF declared THEN StartOutputs(n) ELSE {FreshOutputs(n)} :
      Start("Unique", <<x>>, <<NoData>>, OneAttr("axis", a), y)

\* Slice: data, starts, ends and the optional axes and steps.  An optional
\* input is absent (no type, no data), a constant, or not a constant.
IndexVector(l) == Vector("INT64", Len(l))

OptionalIndex(S, k) ==
  {<<Unranked("UNDEFINED"), NoData>>, <<Vector("INT64", k), NoData>>}
    \cup {<<IndexVector(l), ConstData("INT64", l)>> : l \in S}

SliceInit(types, starts, ends, axes, steps, outs) ==
  \E x \in types, s \in starts, y \in outs :
    \E e \in ends[Len(s)] :
      \/ \E n \in {2, 3} :
           Start("Slice", SubSeq(<<x, IndexVector(s), IndexVector(e)>>, 1, n),
                 SubSeq(<<NoData, ConstData("INT64", s), ConstData("INT64", e)>>,
                        1, n),
                 NoAttrs, y)
      \/ \E a \in OptionalIndex(axes[Len(s)], Len(s)),
            t \in OptionalIndex(steps[Len(s)], Len(s)) :
           Start("Slice", <<x, IndexVector(s), IndexVector(e), a[1], t[1]>>,
                 <<NoData, ConstData("INT64", s), ConstData("INT64", e),
                   a[2], t[2]>>,
                 NoAttrs, y)

\* Slice with starts or ends that are no constants, or of an unaccepted type.
SliceOddInit(types, outs) ==
  \E x \in types, y \in outs :
    \E ds \in {NoData, ConstData("INT64", <<0>>), ConstData("INT32", <<0>>),
               ConstData("FLOAT", <<0>>), ConstData("UNDEFINED", <<0>>)},
       de \in {NoData, ConstData("INT64", <<1>>), ConstData("FLOAT", <<1>>),
               ConstData("INT64", <<1, 1>>)} :
      Start("Slice", <<x, Vector("INT64", 1), Vector("INT64", 1)>>,
            <<NoData, ds, de>>, NoAttrs, y)

Uniform(S, k) == {[q \in 1..k |-> v] : v \in S}

ThinSliceInit(types, outs) ==
  \/ SliceInit(types, ListsUpTo({0, 1}, MaxRank),
               [k \in 0..MaxRank |-> Uniform({-1, MaxDim}, k)],
               [k \in 0..MaxRank |->
                  {[q \in 1..k |-> q - 1], [q \in 1..k |-> -1]}],
               [k \in 0..MaxRank |-> Uniform({-1, 0, 2}, k)], outs)
  \/ SliceOddInit(types, outs)

\* SpaceToDepth and DepthToSpace: an input (N,C,H,W) and 'blocksize' absent,
\* not positive or positive.
BlockTypes ==
  {Tensor("FLOAT", <<n, ch, h, w>>) :
     n \in {DimValue(1), DimParam(1)},
     ch \in Dims({MaxDim * MaxDim, MaxDim * MaxDim + 1}),
     h \in Dims({MaxDim, MaxDim + 1}),
     w \in Dims({MaxDim, 2 * MaxDim})}

BlockInit(o, types, outs) ==
  UnaryInit(o, types, "blocksize", IntAttrs(-1, MaxDim), outs)

\* Where: condition, X, Y.
WhereInit(types, outs) ==
  \E b \in types, x \in types, z \in types, y \in outs :
    Start("Where", <<[b EXCEPT !.elem = "BOOL"], x, z>>,
          <<NoData, NoData, NoData>>, NoAttrs, y)

(***************************************************************************)
(* Actions: one inference call of the node's operator on the context.      *)
(***************************************************************************)
Apply(r) ==
  /\ status \in {"ready", "ok"}
  /\ calls < MaxCalls
  /\ prev' = outputs
  /\ outputs' = r.out
  /\ status' = IF r.ok THEN "ok" ELSE "failed"
  /\ calls' = calls + 1
  /\ UNCHANGED <<op, inputs, data, attrs, base, refined>>

InferCast == op = "Cast" /\ Apply(CastInference(Context))

InferReshape == op = "Reshape" /\ Apply(ReshapeInference(Context))

InferShape == op = "Shape" /\ Apply(ShapeInference(Context))

InferSize == op = "Size" /\ Apply(SizeInference(Context))

InferConcat == op = "Concat" /\ Apply(ConcatInference(Context))

InferSplit == op = "Split" /\ Apply(SplitInference(Context))

InferSlice == op = "Slice" /\ Apply(SliceInference(Context))

InferTranspose == op = "Transpose" /\ Apply(TransposeInference(Context))

InferScatter == op = "Scatter" /\ Apply(ScatterInference(Context))

InferGather == op = "Gather" /\ Apply(GatherInference(Context))

InferSqueeze == op = "Squeeze" /\ Apply(SqueezeInference(Context))

InferUnsqueeze == op = "Unsqueeze" /\ Apply(UnsqueezeInference(Context))

InferPad == op = "Pad" /\ Apply(PadInference(Context))

InferTile == op = "Tile" /\ Apply(TileInference(Context))

InferOneHot == op = "OneHot" /\ Apply(OneHotInference(Context))

InferIsNaN == op = "IsNaN" /\ Apply(IsNaNInference(Context))

InferIsInf == op = "IsInf" /\ Apply(IsInfInference(Context))

InferNonZero == op = "NonZero" /\ Apply(NonZeroInference(Context))

InferReverseSequence ==
  op = "ReverseSequence" /\ Apply(ReverseSequenceInference(Context))

InferUnique == op = "Unique" /\ Apply(UniqueInference(Context))

InferWhere == op = "Where" /\ Apply(WhereInference(Context))

InferSpaceToDepth ==
  op = "SpaceToDepth" /\ Apply(SpaceToDepthInference(Context))

InferDepthToSpace ==
  op = "DepthToSpace" /\ Apply(DepthToSpaceInference(Context))

(***************************************************************************)
(* Every operator, on the thin input types, with default-constructed or    *)
(* already declared output slots, called up to MaxCalls times.             *)
(***************************************************************************)
Init ==
  \/ CastInit(ThinTypes, StartOutputs(1))
  \/ ReshapeInit(ThinTypes, StartOutputs(1))
  \/ PlainInit("Shape", ThinTypes, StartOutputs(1))
  \/ PlainInit("Size", ThinTypes, StartOutputs(1))
  \/ ConcatInit(ThinTypes, StartOutputs(1))
  \/ SplitInit(ThinTypes, TRUE)
  \/ ThinSliceInit(ThinTypes, StartOutputs(1))
  \/ TransposeInit(ThinTypes, StartOutputs(1))
  \/ ScatterInit(ThinTypes, StartOutputs(1))
  \/ GatherInit(ThinTypes, StartOutputs(1))
  \/ SqueezeInit(ThinTypes, StartOutputs(1))
  \/ UnsqueezeInit(ThinTypes, StartOutputs(1))
  \/ PadInit(ThinTypes, StartOutputs(1))
  \/ TileInit(ThinTypes, StartOutputs(1))
  \/ OneHotInit(ThinTypes, StartOutputs(1))
  \/ PlainInit("IsNaN", ThinTypes, StartOutputs(1))
  \/ PlainInit("IsInf", ThinTypes, StartOutputs(1))
  \/ PlainInit("NonZero", ThinTypes, StartOutputs(1))
  \/ ReverseSequenceInit(ThinTypes, StartOutputs(1))
  \/ UniqueInit(ThinTypes, TRUE)
  \/ WhereInit(WhereTypes, StartOutputs(1))
  \/ BlockInit("SpaceToDepth", ThinTypes \cup BlockTypes, StartOutputs(1))
  \/ BlockInit("DepthToSpace", ThinTypes \cup BlockTypes, StartOutputs(1))

Next ==
  \/ InferCast
  \/ InferReshape
  \/ InferShape
  \/ InferSize
  \/ InferConcat
  \/ InferSplit
  \/ InferSlice
  \/ InferTranspose
  \/ InferScatter
  \/ InferGather
  \/ InferSqueeze
  \/ InferUnsqueeze
  \/ InferPad
  \/ InferTile
  \/ InferOneHot
  \/ InferIsNaN
  \/ InferIsInf
  \/ InferNonZero
  \/ InferReverseSequence
  \/ InferUnique
  \/ InferWhere
  \/ InferSpaceToDepth
  \/ InferDepthToSpace

Spec == Init /\ [][Next]_vars

(***************************************************************************)
(* Pad alone, on every shape of the bounds.                                *)
(***************************************************************************)
PadTypes ==
  Ranked("FLOAT", Dims(0..MaxDim), 0, MaxRank) \cup {Unranked("FLOAT")}

InitPad == PadInit(PadTypes, {FreshOutputs(1)})

SpecPad == InitPad /\ [][InferPad]_vars

(***************************************************************************)
(* Slice alone: one sliced axis over every length, start, end and step of  *)
(* the bounds, and two sliced axes in either order.                        *)
(***************************************************************************)
SliceVals == (-(MaxDim + 2))..(MaxDim + 2)

SliceSteps == ((-MaxDim)..MaxDim)

\* Shapes with one dimension of every length and at most one other,
\* symbolic, dimension.
OneAxisTypes ==
  {Tensor("FLOAT", sh) :
     sh \in UNION {{<<DimValue(n)>>, <<DimValue(n), DimParam(1)>>,
                    <<DimParam(1), DimValue(n)>>} : n \in 0..(MaxDim + 1)}}

Singletons(S) == {<<v>> : v \in S}

OneAxisInit ==
  SliceInit(OneAxisTypes, Singletons(SliceVals),
            [k \in 0..1 |-> Singletons(SliceVals)],
            [k \in 0..1 |-> Singletons((-MaxRank)..(MaxRank - 1))],
            [k \in 0..1 |-> Singletons(SliceSteps)],
            {FreshOutputs(1)})

\* data (4,4), starts=[1,0], ends=[2,3], axes=[0,1], steps=[1,2], and its
\* neighbours.
TwoAxisTypes ==
  {Tensor("FLOAT", <<DimValue(a), DimValue(b)>>) : a, b \in {1, 4}}

TwoAxisInit ==
  SliceInit(TwoAxisTypes, Lists({0, 1}, 2),
            [k \in 0..2 |-> Lists({2, 3}, 2)],
            [k \in 0..2 |-> {<<0, 1>>, <<1, 0>>, <<-1, -2>>, <<0, 0>>}],
            [k \in 0..2 |-> Lists({1, 2, -1}, 2)],
            {FreshOutputs(1)})

InitSlice == OneAxisInit \/ TwoAxisInit

SpecSlice == InitSlice /\ [][InferSlice]_vars

(***************************************************************************)
(* Inference run again on a fresh context of the same node after its       *)
(* inputs became more resolved: a dimension got a value, an input without  *)
(* a shape got one, or a constant became available.                        *)
(***************************************************************************)
RefineOps ==
  {"Reshape", "Slice", "Concat", "Pad", "Tile", "Split", "Gather", "Squeeze",
   "Unsqueeze", "Unique", "OneHot"}

\* The inputs that carry constants of the operator: n is a 1-based position.
ConstantInput(n) ==
  \/ op \in {"Reshape", "Tile"} /\ n = 2
  \/ op = "Slice" /\ n >= 2

\* t with one dimension that had no value given a value.
RefinedDims(t) ==
  {[t EXCEPT !.dim[i] = DimValue(v)] :
     i \in {k \in 1..Len(t.dim) : ~has_dim_value(t.dim[k])},
     v \in {1, MaxDim}}

\* The shapes input n can turn out to have.
RefinedRanks(n) ==
  IF ~ConstantInput(n)
    THEN Ranked(inputs[n].elem, {DimValue(1), DimValue(MaxDim), NoDim},
                0, MaxRank)
  ELSE IF data[n].avail
    THEN {Vector(inputs[n].elem, Len(data[n].vals))}
  ELSE {Vector(inputs[n].elem, k) : k \in 0..MaxRank}

\* The values the constant of input n can turn out to have.
RefinedData(n) ==
  LET t == inputs[n]
      lens == IF t.has_shape /\ Len(t.dim) = 1 /\ has_dim_value(t.dim[1])
                THEN {t.dim[1].v}
                ELSE 0..MaxRank
  IN {ConstData("INT64", l) : l \in UNION {Lists((-1)..MaxVal, k) : k \in lens}}

\* The last call was the first one and ran on default-constructed outputs.
FirstCallOnFresh == calls = 1 /\ prev = FreshOutputs(Len(prev))

Restart(kind) ==
  /\ base' = [valid |-> TRUE, ok |-> status = "ok", kind |-> kind,
              out |-> outputs]
  /\ outputs' = FreshOutputs(Len(outputs))
  /\ prev' = FreshOutputs(Len(outputs))
  /\ status' = "ready"
  /\ calls' = 0
  /\ refined' = refined + 1
  /\ UNCHANGED <<op, attrs>>

Refine ==
  /\ FirstCallOnFresh
  /\ refined < MaxRefine
  /\ \E n \in 1..Len(inputs) :
       /\ inputs[n].elem # "UNDEFINED"
       /\ \/ /\ inputs[n].has_shape
             /\ \E t \in RefinedDims(inputs[n]) :
                  inputs' = [inputs EXCEPT ![n] = t]
             /\ UNCHANGED data
             /\ Restart("dim")
          \/ /\ ~inputs[n].has_shape
             /\ \E t \in RefinedRanks(n) : inputs' = [inputs EXCEPT ![n] = t]
             /\ UNCHANGED data
             /\ Restart("rank")
          \/ /\ ConstantInput(n)
             /\ ~data[n].avail
             /\ \E d \in RefinedData(n) : data' = [data EXCEPT ![n] = d]
             /\ UNCHANGED inputs
             /\ Restart("constant")

\* Input types before they become more resolved.
RefineTypes ==
  Ranked("FLOAT", {DimValue(1), DimParam(1), NoDim}, 0, MaxRank)
    \cup {Unranked("FLOAT")}

RefineSliceInit ==
  \/ SliceInit(RefineTypes, UNION {Uniform({0, 1}, k) : k \in 0..MaxRank},
               [k \in 0..MaxRank |-> Uniform({MaxDim}, k)],
               [k \in 0..MaxRank |-> {[q \in 1..k |-> q - 1]}],
               [k \in 0..MaxRank |-> Uniform({-1, 0}, k)],
               {FreshOutputs(1)})
  \/ SliceOddInit(RefineTypes, {FreshOutputs(1)})

InitRefine ==
  \/ ReshapeInit(RefineTypes, {FreshOutputs(1)})
  \/ RefineSliceInit
  \/ ConcatInit(RefineTypes, {FreshOutputs(1)})
  \/ PadInit(RefineTypes, {FreshOutputs(1)})
  \/ TileInit(RefineTypes, {FreshOutputs(1)})
  \/ SplitInit(RefineTypes, FALSE)
  \/ GatherInit(RefineTypes, {FreshOutputs(1)})
  \/ SqueezeInit(RefineTypes, {FreshOutputs(1)})
  \/ UnsqueezeInit(RefineTypes, {FreshOutputs(1)})
  \/ UniqueInit(RefineTypes, FALSE)
  \/ OneHotInit(RefineTypes, {FreshOutputs(1)})

NextRefine ==
  \/ InferReshape
  \/ InferSlice
  \/ InferConcat
  \/ InferPad
  \/ InferTile
  \/ InferSplit
  \/ InferGather
  \/ InferSqueeze
  \/ InferUnsqueeze
  \/ InferUnique
  \/ InferOneHot
  \/ Refine

SpecRefine == InitRefine /\ [][NextRefine]_vars

(***************************************************************************)
(* Properties.                                                             *)
(***************************************************************************)
Rank(t) == dim_size(t)

AppendingOps ==
  {"Reshape", "Slice", "Concat", "Gather", "Squeeze", "Unsqueeze", "Pad",
   "Tile", "OneHot", "Unique", "Shape"}

\* C1: a second call on the same context, with unchanged inputs and
\* attributes and the output slots as the first call left them, leaves
\* every output with the rank and the dimensions the first call produced.
C1_SecondCallChangesNothing ==
  (op \in AppendingOps /\ calls = 2 /\ status = "ok")
    => \A j \in 1..Len(outputs) :
         /\ outputs[j].has_shape = prev[j].has_shape
         /\ outputs[j].dim = prev[j].dim

AssigningOps ==
  {"Cast", "Split", "Scatter", "ReverseSequence", "IsNaN", "IsInf"}

ElemSource ==
  IF op = "OneHot" THEN 3 ELSE IF op = "Where" THEN 2 ELSE 1

ElemPropagatingOps ==
  {"Reshape", "Concat", "Split", "Slice", "Transpose", "Scatter", "Gather",
   "Squeeze", "Unsqueeze", "Pad", "Tile", "Unique", "OneHot", "Where"}

\* C5: on every successful call whose source input has an element type,
\* output 0 has an element type, and for the operators that propagate it
\* output 0 has the element type of the source input, whether or not a
\* shape was inferred.
C5_ElemTypePropagated ==
  (calls >= 1 /\ status = "ok" /\ Len(inputs) >= ElemSource
     /\ inputs[ElemSource].elem # "UNDEFINED")
    => /\ outputs[1].elem # "UNDEFINED"
       /\ op \in ElemPropagatingOps
            => outputs[1].elem = inputs[ElemSource].elem

\* A call returned early, without any shape, and the element type is set.
C5_Witness ==
  /\ op \in ElemPropagatingOps
  /\ FirstCallOnFresh
  /\ status = "ok"
  /\ ~outputs[1].has_shape
  /\ outputs[1].elem = "FLOAT"

\* C6: Squeeze never succeeds when a listed axis is an input dimension of
\* known length other than 1, in whatever order the axes are listed.
C6_SqueezeListedAxisChecked ==
  (op = "Squeeze" /\ calls >= 1 /\ status = "ok" /\ inputs[1].has_shape
     /\ attrs["axes"].has)
    => \A q \in 1..Len(attrs["axes"].ints) :
         LET a == attrs["axes"].ints[q]
         IN ~(/\ a \in 0..(Rank(inputs[1]) - 1)
              /\ has_dim_value(inputs[1].dim[a + 1])
              /\ inputs[1].dim[a + 1].v # 1)

\* C9: every dimension value in an output after a successful call is
\* non-negative.
C9_DimValuesNonNegative ==
  (calls >= 1 /\ status = "ok")
    => \A j \in 1..Len(outputs) :
         \A i \in 1..Len(outputs[j].dim) :
           has_dim_value(outputs[j].dim[i]) => outputs[j].dim[i].v >= 0

\* The input shape, the pads and the output shape of a first Pad call.
PadFirstCall ==
  /\ op = "Pad"
  /\ FirstCallOnFresh
  /\ inputs[1].has_shape

\* C7: at an axis of unknown input length the output dimension is the input
\* dimension only if the begin pad and the end pad are both zero, and is
\* unset for every other pair of pads.
C7_PassThroughOnlyIfBothZero ==
  (PadFirstCall /\ status = "ok")
    => \A i \in 1..Rank(inputs[1]) :
         LET d == inputs[1].dim[i]
             r == Rank(inputs[1])
             pads == attrs["pads"].ints
         IN ~has_dim_value(d)
              => outputs[1].dim[i] =
                   (IF pads[i] = 0 /\ pads[r + i] = 0 THEN d ELSE NoDim)

\* C7 as amended: at an axis of unknown input length the output dimension is
\* the input dimension when the begin pad and the end pad sum to zero, and
\* is unset otherwise.
C7_PassThroughIffSumZero ==
  (PadFirstCall /\ status = "ok")
    => \A i \in 1..Rank(inputs[1]) :
         LET d == inputs[1].dim[i]
             r == Rank(inputs[1])
             pads == attrs["pads"].ints
         IN ~has_dim_value(d)
              => outputs[1].dim[i] =
                   (IF pads[i] + pads[r + i] = 0 THEN d ELSE NoDim)

\* A symbolic dimension padded by a non-zero pair that sums to zero is
\* passed through.
C7_Witness ==
  /\ PadFirstCall
  /\ status = "ok"
  /\ \E i \in 1..Rank(inputs[1]) :
       /\ has_dim_param(inputs[1].dim[i])
       /\ attrs["pads"].ints[i] # 0
       /\ attrs["pads"].ints[i] + attrs["pads"].ints[Rank(inputs[1]) + i] = 0
       /\ outputs[1].dim[i] = inputs[1].dim[i]

\* C8: on a ranked input of rank r Pad fails unless 'pads' is present with
\* 2*r entries; on success the output has rank r and every axis of known
\* input length has output length input + pads[i] + pads[r+i].
C8_PadRankAndLengths ==
  PadFirstCall
    => LET r == Rank(inputs[1])
           pads == attrs["pads"]
       IN /\ (~pads.has \/ Len(pads.ints) # 2 * r) => status = "failed"
          /\ status = "ok"
               => /\ outputs[1].has_shape
                  /\ Rank(outputs[1]) = r
                  /\ \A i \in 1..r :
                       has_dim_value(inputs[1].dim[i])
                         => outputs[1].dim[i] =
                              DimValue(inputs[1].dim[i].v + pads.ints[i]
                                         + pads.ints[r + i])

\* A rank-2 input padded by different begin and end pads.
C8_Witness ==
  /\ PadFirstCall
  /\ status = "ok"
  /\ Rank(inputs[1]) = 2
  /\ has_dim_value(inputs[1].dim[2])
  /\ attrs["pads"].ints[2] # attrs["pads"].ints[4]
  /\ Rank(outputs[1]) = 2

Abs(x) == IF x < 0 THEN -x ELSE x

\* The point of the interval lo..hi nearest to v.
Nearest(v, lo, hi) ==
  CHOOSE x \in lo..hi : \A y \in lo..hi : Abs(x - v) <= Abs(y - v)

\* The number of indices start', start' + step, ... strictly before end',
\* which is max(0, ceil((end' - start') / step)).
SlicedLength(len, start, end, step) ==
  LET s1 == IF start < 0 THEN start + len ELSE start
      e1 == IF end < 0 THEN end + len ELSE end
      s2 == IF step > 0 THEN Nearest(s1, 0, len) ELSE Nearest(s1, 0, len - 1)
      e2 == IF step > 0 THEN Nearest(e1, 0, len) ELSE Nearest(e1, -1, len)
  IN Cardinality({k \in 0..(len + 1) :
                    IF step > 0 THEN s2 + k * step < e2
                                ELSE s2 + k * step > e2})

\* A first Slice call on a ranked input with constant starts, ends, axes
\* and steps.
SliceFirstCall ==
  /\ op = "Slice"
  /\ FirstCallOnFresh
  /\ Len(inputs) \in {3, 5}
  /\ inputs[1].has_shape
  /\ data[2].avail /\ data[3].avail
  /\ Len(inputs) = 5 => \A n \in {4, 5} : inputs[n].has_shape => data[n].avail

SliceAxesGiven ==
  IF Len(inputs) = 5 /\ inputs[4].has_shape
    THEN [q \in 1..Len(data[4].vals) |->
            IF data[4].vals[q] < 0 THEN data[4].vals[q] + Rank(inputs[1])
                                   ELSE data[4].vals[q]]
    ELSE [q \in 1..Len(data[2].vals) |-> q - 1]

SliceStepsGiven ==
  IF Len(inputs) = 5 /\ inputs[5].has_shape
    THEN data[5].vals
    ELSE [q \in 1..Len(data[2].vals) |-> 1]

MonotoneOps == {"Reshape", "Slice", "Concat", "Pad", "Tile", "Split"}

\* The call before the inputs became more resolved and the call after it
\* both succeeded, each on a fresh context.
BothSucceeded ==
  /\ base.valid
  /\ base.ok
  /\ FirstCallOnFresh
  /\ status = "ok"

\* C3: a known value written to an output dimension on inputs I is still a
\* known value of that output dimension after a successful call on inputs
\* that differ from I only by being more resolved.
C3_ResolvedStaysResolved ==
  (BothSucceeded /\ op \in MonotoneOps)
    => \A j \in 1..Len(base.out) :
         \A i \in 1..Len(base.out[j].dim) :
           has_dim_value(base.out[j].dim[i])
             => /\ i <= Len(outputs[j].dim)
                /\ has_dim_value(outputs[j].dim[i])

\* A known output value was kept while another output dimension became
\* known.
C3_Witness ==
  /\ BothSucceeded
  /\ op \in MonotoneOps
  /\ \E i \in 1..Len(base.out[1].dim) : has_dim_value(base.out[1].dim[i])
  /\ \E i \in 1..Len(base.out[1].dim) :
       /\ ~has_dim_value(base.out[1].dim[i])
       /\ has_dim_value(outputs[1].dim[i])

InformationOps ==
  {"Reshape", "Slice", "Tile", "Concat", "Gather", "Squeeze", "Unsqueeze",
   "Pad", "Unique", "OneHot"}

\* C4: a call that succeeds once an input has a shape or a constant is
\* available also succeeded before, when only that shape or that constant
\* was missing.
C4_MissingInformationNeverFails ==
  (base.valid /\ base.kind \in {"rank", "constant"} /\ FirstCallOnFresh
     /\ status = "ok" /\ op \in InformationOps)
    => base.ok

C12_SliceRankAlwaysSet ==
  (op = "Slice" /\ FirstCallOnFresh /\ inputs[1].has_shape /\ status = "ok")
    => /\ outputs[1].has_shape
       /\ Rank(outputs[1]) = Rank(inputs[1])
       /\ SliceFirstCall
            => \A q \in 1..Len(SliceAxesGiven) :
                 ~has_dim_value(inputs[1].dim[SliceAxesGiven[q] + 1])
                   => ~has_dim_value(outputs[1].dim[SliceAxesGiven[q] + 1])

(***************************************************************************)
(* Reshape on its own: every input shape of rank up to MaxRank over the    *)
(* lengths 0..MaxDim+1 and the symbolic and unknown dimension, and the     *)
(* shapes of rank 3 around the example input (2,3,4) with target (-1,4),   *)
(* on fresh outputs.                                                       *)
(***************************************************************************)
ReshapeTypes ==
  Ranked("FLOAT", Dims(0..(MaxDim + 1)), 0, MaxRank) \cup {Unranked("FLOAT")}

ReshapeTargets == ListsUpTo((-2)..(MaxDim + 1), MaxRank + 1)

ExampleDims == {DimValue(2), DimValue(3), DimValue(4), DimParam(1)}

ExampleTypes == {Tensor("FLOAT", sh) : sh \in [1..3 -> ExampleDims]}

ExampleTargets == UNION {[1..r -> {-1, 0, 2, 4, 6}] : r \in 1..3}

ReshapeOn(types, targets) ==
  \E x \in types :
    \/ Start("Reshape", <<x, Vector("INT64", 1)>>, <<NoData, NoData>>,
             NoAttrs, FreshOutputs(1))
    \/ \E l \in targets :
         Start("Reshape", <<x, Vector("INT64", Len(l))>>,
               <<NoData, ConstData("INT64", l)>>, NoAttrs, FreshOutputs(1))

InitReshape ==
  \/ ReshapeOn(ReshapeTypes, ReshapeTargets)
  \/ ReshapeOn(ExampleTypes, ExampleTargets)

SpecReshape == InitReshape /\ [][InferReshape]_vars

RECURSIVE ProductOf(_)
ProductOf(s) == IF s = <<>> THEN 1 ELSE Head(s) * ProductOf(Tail(s))

\* A first Reshape call with a constant target shape.
ReshapeFirstCall ==
  /\ op = "Reshape"
  /\ FirstCallOnFresh
  /\ inputs[1].elem # "UNDEFINED"
  /\ data[2].avail

FullyKnown(t) ==
  t.has_shape /\ \A i \in 1..dim_size(t) : has_dim_value(t.dim[i])

\* The target has exactly one -1, and its other entries are positive or are
\* 0 entries at a position of the input shape.
OneNegativeOne(target) ==
  /\ Cardinality({i \in 1..Len(target) : target[i] = -1}) = 1
  /\ \A i \in 1..Len(target) : target[i] >= -1
  /\ inputs[1].has_shape
       => \A i \in 1..Len(target) : target[i] = 0 => i <= dim_size(inputs[1])

\* The known lengths a target states: its positive entries, and the known
\* input lengths its 0 entries copy.
KnownTargetLengths(target) ==
  [i \in 1..Len(target) |->
     IF target[i] > 0 THEN target[i]
     ELSE IF target[i] = 0 /\ inputs[1].has_shape
               /\ i <= dim_size(inputs[1]) /\ has_dim_value(inputs[1].dim[i])
       THEN inputs[1].dim[i].v
     ELSE 1]

\* The known lengths of the input, without those at the positions in skip.
KnownInputLengths(skip) ==
  [i \in 1..dim_size(inputs[1]) |->
     IF has_dim_value(inputs[1].dim[i]) /\ i \notin skip
       THEN inputs[1].dim[i].v ELSE 1]

\* C13: for a fully known input shape of n elements and a constant target
\* with exactly one -1 whose other entries (positive literals, or 0 entries
\* copying the input dimension at the same position) have a product p > 0
\* that divides n, Reshape succeeds, a positive entry is the output length,
\* a 0 entry is the copied input length, and the -1 entry is n / p.
C13_NegativeOneIsQuotient ==
  LET target == data[2].vals
      n == ProductOf(KnownInputLengths({}))
      p == ProductOf(KnownTargetLengths(target))
  IN (ReshapeFirstCall /\ FullyKnown(inputs[1]) /\ OneNegativeOne(target)
        /\ p > 0 /\ n % p = 0)
       => /\ status = "ok"
          /\ outputs[1].has_shape
          /\ dim_size(outputs[1]) = Len(target)
          /\ \A i \in 1..Len(target) :
               outputs[1].dim[i] =
                 IF target[i] > 0 THEN DimValue(target[i])
                 ELSE IF target[i] = 0 THEN inputs[1].dim[i]
                 ELSE DimValue(n \div p)

\* Input (2,3,4) with target (-1,4) gave (6,4).
C13_Witness ==
  /\ ReshapeFirstCall
  /\ status = "ok"
  /\ inputs[1].dim = <<DimValue(2), DimValue(3), DimValue(4)>>
  /\ data[2].vals = <<-1, 4>>
  /\ outputs[1].dim = <<DimValue(6), DimValue(4)>>

\* C14: for a fully known input shape of n elements and a constant target,
\* with or without a -1 entry, whose explicit and copied lengths have a
\* product p that does not divide n, Reshape fails.
C14_IncompatibleTargetFails ==
  LET target == data[2].vals
      n == ProductOf(KnownInputLengths({}))
      p == ProductOf(KnownTargetLengths(target))
  IN (ReshapeFirstCall /\ FullyKnown(inputs[1])
        /\ \A i \in 1..Len(target) : target[i] >= -1
        /\ p > 0 /\ n % p # 0)
       => status = "failed"

\* The position of the -1 entry of a target.
NegativeOneAt(target) == CHOOSE i \in 1..Len(target) : target[i] = -1

\* An input dimension without a known value is not copied by a 0 entry at
\* its position.
UncopiedUnknown(target) ==
  \E i \in 1..dim_size(inputs[1]) :
    /\ ~has_dim_value(inputs[1].dim[i])
    /\ ~(i <= Len(target) /\ target[i] = 0)

\* C15: with a -1 entry in the target, when the data input is unranked or
\* has a dimension without a known value that no 0 entry copies, Reshape
\* succeeds and leaves the -1 dimension unset; when every dimension without
\* a known value is copied by a 0 entry, Reshape succeeds and the -1
\* dimension is (product of the known input lengths) / (product of the
\* known output lengths).
C15_UnknownInputDims ==
  LET target == data[2].vals
      n == ProductOf(KnownInputLengths({}))
      p == ProductOf(KnownTargetLengths(target))
  IN (ReshapeFirstCall /\ OneNegativeOne(target))
       => /\ status = "ok"
          /\ outputs[1].dim[NegativeOneAt(target)] =
               IF ~inputs[1].has_shape \/ UncopiedUnknown(target)
                 THEN NoDim
                 ELSE DimValue(IF p = 0 THEN 0 ELSE n \div p)

\* C15, as the code has it: the same, where the product p of the known
\* output lengths is not 0 and, in the second case, p divides the product n
\* of the known input lengths; Reshape fails when p is 0, and in the second
\* case when p does not divide n.
C15_UnknownInputDimsOrFailure ==
  LET target == data[2].vals
      n == ProductOf(KnownInputLengths({}))
      p == ProductOf(KnownTargetLengths(target))
      unset == ~inputs[1].has_shape \/ UncopiedUnknown(target)
  IN (ReshapeFirstCall /\ OneNegativeOne(target))
       => IF p = 0 \/ (~unset /\ n % p # 0)
            THEN status = "failed"
            ELSE /\ status = "ok"
                 /\ outputs[1].dim[NegativeOneAt(target)] =
                      IF unset THEN NoDim ELSE DimValue(n \div p)

\* Input (N,3,4) with target (0,-1) gave (N,12).
C15_Witness ==
  /\ ReshapeFirstCall
  /\ status = "ok"
  /\ inputs[1].dim = <<DimParam(1), DimValue(3), DimValue(4)>>
  /\ data[2].vals = <<0, -1>>
  /\ outputs[1].dim = <<DimParam(1), DimValue(12)>>

(***************************************************************************)
(* Concat on its own: one to three inputs over the lengths 1..MaxDim and   *)
(* the symbolic and unknown dimension, on fresh outputs.                   *)
(***************************************************************************)
ConcatTypes ==
  Ranked("FLOAT", Dims(1..MaxDim), 0, MaxRank) \cup {Unranked("FLOAT")}

\* The third input: the shapes of equal lengths.
ConcatThirdTypes ==
  {Tensor("FLOAT", sh) :
     sh \in UNION {Uniform(Dims(1..MaxDim), r) : r \in 1..MaxRank}}

InitConcat ==
  \E a \in IntAttrs(-MaxRank, MaxRank) :
    \/ \E x \in ConcatTypes :
         Start("Concat", <<x>>, <<NoData>>, OneAttr("axis", a),
               FreshOutputs(1))
    \/ \E x1 \in ConcatTypes, x2 \in ConcatTypes :
         Start("Concat", <<x1, x2>>, <<NoData, NoData>>, OneAttr("axis", a),
               FreshOutputs(1))
    \/ \E x1 \in ConcatTypes, x2 \in ConcatTypes, x3 \in ConcatThirdTypes :
         Start("Concat", <<x1, x2, x3>>, <<NoData, NoData, NoData>>,
               OneAttr("axis", a), FreshOutputs(1))

SpecConcat == InitConcat /\ [][InferConcat]_vars

RECURSIVE SumOf(_)
SumOf(s) == IF s = <<>> THEN 0 ELSE Head(s) + SumOf(Tail(s))

\* A first Concat call on ranked inputs, with an element type on input 0.
ConcatFirstCall ==
  /\ op = "Concat"
  /\ FirstCallOnFresh
  /\ inputs[1].elem # "UNDEFINED"
  /\ \A n \in 1..Len(inputs) : inputs[n].has_shape

\* ... of equal rank, with a non-negative axis below that rank.
ConcatAlongAxis ==
  /\ ConcatFirstCall
  /\ \A n \in 1..Len(inputs) : Rank(inputs[n]) = Rank(inputs[1])
  /\ attrs["axis"].has
  /\ attrs["axis"].i >= 0
  /\ attrs["axis"].i < Rank(inputs[1])

\* Two inputs have different known lengths on an axis other than the concat
\* axis.
ConcatConflict ==
  \E j \in 1..Rank(inputs[1]), n \in 1..Len(inputs), m \in 1..Len(inputs) :
    /\ j # attrs["axis"].i + 1
    /\ has_dim_value(inputs[n].dim[j])
    /\ has_dim_value(inputs[m].dim[j])
    /\ inputs[n].dim[j].v # inputs[m].dim[j].v

\* C16: Concat of n >= 1 ranked inputs of equal rank along a non-negative
\* axis below the rank fails when two inputs have different known lengths on
\* another axis, also when the concat axis is unresolved; otherwise it
\* succeeds, the output has the rank of the inputs, its length at the axis is
\* the sum of the input lengths when all are known and unset when one is
\* not, and every other axis has the known length of the inputs, if any.
C16_ConcatAxisAndOthers ==
  LET axis == attrs["axis"].i + 1
      N == 1..Len(inputs)
  IN ConcatAlongAxis
       => IF ConcatConflict THEN status = "failed"
          ELSE /\ status = "ok"
               /\ outputs[1].has_shape
               /\ Rank(outputs[1]) = Rank(inputs[1])
               /\ outputs[1].dim[axis] =
                    IF \A n \in N : has_dim_value(inputs[n].dim[axis])
                      THEN DimValue(SumOf([n \in N |-> inputs[n].dim[axis].v]))
                      ELSE NoDim
               /\ \A j \in 1..Rank(inputs[1]) \ {axis} :
                    IF \E n \in N : has_dim_value(inputs[n].dim[j])
                      THEN \E n \in N : outputs[1].dim[j] = inputs[n].dim[j]
                                          /\ has_dim_value(inputs[n].dim[j])
                      ELSE ~has_dim_value(outputs[1].dim[j])

\* Inputs (N,?), (1,2) and (2,2) along axis 0 gave (?,2).
C16_Witness ==
  /\ ConcatAlongAxis
  /\ attrs["axis"].i = 0
  /\ Len(inputs) = 3
  /\ inputs[1].dim = <<DimParam(1), NoDim>>
  /\ inputs[2].dim = <<DimValue(1), DimValue(2)>>
  /\ inputs[3].dim = <<DimValue(2), DimValue(2)>>
  /\ status = "ok"
  /\ outputs[1].dim = <<NoDim, DimValue(2)>>

\* C17: a first Concat call on ranked inputs with a negative 'axis'
\* attribute succeeds, writes no output shape (the output rank stays unset)
\* and gives the output the element type of input 0, whatever the ranks and
\* lengths of the inputs are.
C17_NegativeAxisWritesNoShape ==
  (ConcatFirstCall /\ attrs["axis"].has /\ attrs["axis"].i < 0)
    => /\ status = "ok"
       /\ ~outputs[1].has_shape
       /\ outputs[1].elem = inputs[1].elem

\* Inputs (1,2) and (2) with axis -1 succeeded without an output shape.
C17_Witness ==
  /\ ConcatFirstCall
  /\ attrs["axis"].has
  /\ attrs["axis"].i = -1
  /\ Len(inputs) = 2
  /\ inputs[1].dim = <<DimValue(1), DimValue(2)>>
  /\ inputs[2].dim = <<DimValue(2)>>
  /\ status = "ok"
  /\ ~outputs[1].has_shape
  /\ outputs[1].elem = "FLOAT"

(***************************************************************************)
(* Gather on its own: data of rank up to MaxRank + 1 over the lengths      *)
(* 1..MaxDim, indices of rank up to MaxRank over other lengths, so that    *)
(* the origin of every output dimension shows.                             *)
(***************************************************************************)
GatherDataTypes ==
  Ranked("FLOAT", Dims(1..MaxDim), 0, MaxRank + 1) \cup {Unranked("FLOAT")}

GatherIndicesTypes ==
  Ranked("INT64", {DimValue(MaxDim + 1), DimValue(MaxDim + 2), NoDim},
         0, MaxRank)
    \cup {Unranked("INT64")}

InitGather ==
  \E x \in GatherDataTypes, i \in GatherIndicesTypes,
     a \in IntAttrs(-(MaxRank + 2), MaxRank + 1) :
    Start("Gather", <<x, i>>, <<NoData, NoData>>, OneAttr("axis", a),
          FreshOutputs(1))

SpecGather == InitGather /\ [][InferGather]_vars

\* A first Gather call on ranked data and indices.
GatherFirstCall ==
  /\ op = "Gather"
  /\ FirstCallOnFresh
  /\ inputs[1].elem # "UNDEFINED"
  /\ inputs[1].has_shape
  /\ inputs[2].has_shape

\* C18: for data of rank r and indices of rank q, Gather fails when r < 1 or
\* the axis attribute (0 when absent) is outside [-r, r-1]; otherwise, with
\* a negative axis counted from r, the output has the rank q + r - 1 (a
\* shape of rank 0 when that is 0) and is the data dimensions before the
\* axis, then the indices dimensions in order, then the data dimensions
\* after the axis.
C18_GatherShape ==
  LET r == Rank(inputs[1])
      a == IF attrs["axis"].has THEN attrs["axis"].i ELSE 0
      axis == IF a < 0 THEN a + r ELSE a
  IN GatherFirstCall
       => IF r < 1 \/ a < -r \/ a > r - 1 THEN status = "failed"
          ELSE /\ status = "ok"
               /\ outputs[1].has_shape
               /\ Rank(outputs[1]) = Rank(inputs[2]) + r - 1
               /\ outputs[1].dim =
                    SubSeq(inputs[1].dim, 1, axis) \o inputs[2].dim
                      \o SubSeq(inputs[1].dim, axis + 2, r)

\* Data (1,N) and indices (a,b) with axis -1 gave (1,a,b).
C18_Witness ==
  /\ GatherFirstCall
  /\ status = "ok"
  /\ inputs[1].dim = <<DimValue(1), DimParam(1)>>
  /\ inputs[2].dim = <<DimValue(MaxDim + 1), DimValue(MaxDim + 2)>>
  /\ attrs["axis"].has /\ attrs["axis"].i = -1
  /\ outputs[1].dim = <<DimValue(1), DimValue(MaxDim + 1),
                        DimValue(MaxDim + 2)>>

(***************************************************************************)
(* Unsqueeze on its own: inputs of rank up to MaxRank with up to MaxRank   *)
(* axes in any order, repeated or out of range included, and the shapes of *)
(* rank 3 around the example input (3,4,5) with axes [0,4], on fresh       *)
(* outputs.                                                                *)
(***************************************************************************)
UnsqueezeTypes ==
  Ranked("FLOAT", Dims(1..MaxDim), 0, MaxRank) \cup {Unranked("FLOAT")}

UnsqueezeAxes == UNION {[1..k -> 0..(MaxRank + k)] : k \in 0..MaxRank}

UnsqueezeExampleTypes ==
  {Tensor("FLOAT", sh) :
     sh \in [1..3 -> {DimValue(3), DimValue(4), DimValue(5)}]}

UnsqueezeExampleAxes == UNION {[1..k -> 0..(2 + k)] : k \in 1..3}

InitUnsqueeze ==
  \/ UnaryInit("Unsqueeze", UnsqueezeTypes, "axes",
               {NoAttr} \cup {IntsAttr(l) : l \in UnsqueezeAxes},
               {FreshOutputs(1)})
  \/ UnaryInit("Unsqueeze", UnsqueezeExampleTypes, "axes",
               {IntsAttr(l) : l \in UnsqueezeExampleAxes},
               {FreshOutputs(1)})

SpecUnsqueeze == InitUnsqueeze /\ [][InferUnsqueeze]_vars

\* A first Unsqueeze call on a ranked input of rank r with k distinct axes
\* in [0, r + k).
UnsqueezeDistinctAxes ==
  LET axes == attrs["axes"].ints
  IN /\ op = "Unsqueeze"
     /\ FirstCallOnFresh
     /\ inputs[1].elem # "UNDEFINED"
     /\ inputs[1].has_shape
     /\ attrs["axes"].has
     /\ \A a, b \in 1..Len(axes) : a # b => axes[a] # axes[b]
     /\ \A a \in 1..Len(axes) :
          axes[a] >= 0 /\ axes[a] < Rank(inputs[1]) + Len(axes)

\* The n-th output position, in ascending order, that the axes do not list.
NthUnlisted(n) ==
  LET axes == attrs["axes"].ints
      unlisted == {p \in 0..(Rank(inputs[1]) + Len(axes) - 1) :
                     \A a \in 1..Len(axes) : axes[a] # p}
  IN CHOOSE p \in unlisted : Cardinality({u \in unlisted : u < p}) = n - 1

\* C19: for a ranked input of rank r and k distinct axes in [0, r + k),
\* given in any order, Unsqueeze succeeds with an output of rank r + k that
\* has the known length 1 at every listed position and the input dimensions,
\* in their order, at the other positions.
C19_UnsqueezeInsertsOnes ==
  LET axes == attrs["axes"].ints
  IN UnsqueezeDistinctAxes
       => /\ status = "ok"
          /\ outputs[1].has_shape
          /\ Rank(outputs[1]) = Rank(inputs[1]) + Len(axes)
          /\ \A a \in 1..Len(axes) : outputs[1].dim[axes[a] + 1] = DimValue(1)
          /\ \A n \in 1..Rank(inputs[1]) :
               outputs[1].dim[NthUnlisted(n) + 1] = inputs[1].dim[n]

\* Input (3,4,5) with axes [4,0] gave (1,3,4,5,1).
C19_Witness ==
  /\ UnsqueezeDistinctAxes
  /\ status = "ok"
  /\ inputs[1].dim = <<DimValue(3), DimValue(4), DimValue(5)>>
  /\ attrs["axes"].ints = <<4, 0>>
  /\ outputs[1].dim = <<DimValue(1), DimValue(3), DimValue(4), DimValue(5),
                        DimValue(1)>>

\* A first Tile call on a ranked input 0.
TileFirstCall ==
  /\ op = "Tile"
  /\ FirstCallOnFresh
  /\ inputs[1].elem # "UNDEFINED"
  /\ inputs[1].has_shape

\* C20: a first Tile call on an input of rank r succeeds with an output of
\* rank r; when 'repeats' is a constant int64 tensor of exactly r values,
\* output dimension i is the input length times repeats[i] where the input
\* length is known and unset elsewhere; in every other case (repeats no
\* constant, or a constant of another number of values) all output
\* dimensions are unset.
C20_TileRepeatsOrRankOnly ==
  LET r == Rank(inputs[1])
      repeated == /\ data[2].avail
                  /\ data[2].data_type = "INT64"
                  /\ Len(data[2].vals) = r
  IN TileFirstCall
       => /\ status = "ok"
          /\ outputs[1].has_shape
          /\ Rank(outputs[1]) = r
          /\ \A i \in 1..r :
               outputs[1].dim[i] =
                 IF repeated /\ has_dim_value(inputs[1].dim[i])
                   THEN DimValue(inputs[1].dim[i].v * data[2].vals[i])
                   ELSE NoDim

\* A first Unique call on an input with an element type.
UniqueFirstCall ==
  /\ op = "Unique"
  /\ FirstCallOnFresh
  /\ inputs[1].elem # "UNDEFINED"

OneHotIndicesTypes ==
  Ranked("INT64", Dims(1..MaxDim), 0, MaxRank) \cup {Unranked("INT64")}

InitOneHot == OneHotInit(OneHotIndicesTypes, {FreshOutputs(1)})

SpecOneHot == InitOneHot /\ [][InferOneHot]_vars

\* A type that is not known to be anything else than a vector of n elements.
MayBeVectorOf(t, n) ==
  t.has_shape
    => /\ Rank(t) = 1
       /\ has_dim_value(t.dim[1]) => t.dim[1].v = n

\* A first OneHot call on ranked indices, with a 'depth' that may be one
\* element and 'values' that may be two elements of a known type.
OneHotFirstCall ==
  /\ op = "OneHot"
  /\ FirstCallOnFresh
  /\ Len(inputs) = 3
  /\ inputs[1].has_shape
  /\ MayBeVectorOf(inputs[2], 1)
  /\ MayBeVectorOf(inputs[3], 2)
  /\ inputs[3].elem # "UNDEFINED"

WhereShapes ==
  Ranked("FLOAT", Dims(1..MaxDim), 0, MaxRank)
    \cup {Unranked("FLOAT"), Tensor("INT32", <<DimValue(MaxDim)>>)}

InitWhere == WhereInit(WhereShapes, {FreshOutputs(1)})

SpecWhere == InitWhere /\ [][InferWhere]_vars

\* A first Where call on three ranked inputs, X with an element type.
WhereFirstCall ==
  /\ op = "Where"
  /\ FirstCallOnFresh
  /\ inputs[2].elem # "UNDEFINED"
  /\ \A n \in 1..3 : inputs[n].has_shape

\* The dimensions the inputs contribute to the k-th axis from the end.
TrailingDims(k) ==
  {inputs[n].dim[Rank(inputs[n]) - k + 1] :
     n \in {m \in 1..3 : Rank(inputs[m]) >= k}}

\* The known values > 1 among them.
LargeValues(k) == {d.v : d \in {e \in TrailingDims(k) : has_dim_value(e) /\ e.v > 1}}

WhereRank == MaxOf({Rank(inputs[n]) : n \in 1..3})

InitBlock ==
  \E o \in {"SpaceToDepth", "DepthToSpace"} :
    BlockInit(o, BlockTypes \cup Ranked("FLOAT", Dims({MaxDim}), 0, MaxRank + 1)
                   \cup {Tensor("FLOAT", [q \in 1..5 |-> DimValue(MaxDim)]),
                         Unranked("FLOAT")},
              {FreshOutputs(1)})

NextBlock == InferSpaceToDepth \/ InferDepthToSpace

SpecBlock == InitBlock /\ [][NextBlock]_vars

\* A first SpaceToDepth or DepthToSpace call.
BlockFirstCall ==
  /\ op \in {"SpaceToDepth", "DepthToSpace"}
  /\ FirstCallOnFresh
  /\ inputs[1].elem # "UNDEFINED"

\* C24: SpaceToDepth and DepthToSpace fail when 'blocksize' is absent or not
\* positive and when the input is ranked with a rank other than 4; on an
\* input (N,C,H,W) with blocksize b > 0 the output has rank 4, keeps N, and
\* has, where C, H, W are known values, (C*b*b, H/b, W/b) for SpaceToDepth
\* and (C/(b*b), H*b, W*b) for DepthToSpace, the divisions being integer
\* divisions; on an unranked input with b > 0 they succeed and write no shape.
C24_BlockShapes ==
  LET b == attrs["blocksize"].i
      in == inputs[1].dim
      out == outputs[1].dim
      known(i) == has_dim_value(in[i])
  IN BlockFirstCall
       => IF ~attrs["blocksize"].has \/ b <= 0 THEN status = "failed"
          ELSE IF ~inputs[1].has_shape
            THEN status = "ok" /\ ~outputs[1].has_shape
          ELSE IF Rank(inputs[1]) # 4 THEN status = "failed"
          ELSE /\ status = "ok"
               /\ outputs[1].has_shape
               /\ Rank(outputs[1]) = 4
               /\ out[1] = in[1]
               /\ op = "SpaceToDepth"
                    => /\ known(2) => out[2] = DimValue(in[2].v * b * b)
                       /\ known(3) => out[3] = DimValue(in[3].v \div b)
                       /\ known(4) => out[4] = DimValue(in[4].v \div b)
               /\ op = "DepthToSpace"
                    => /\ known(2) => out[2] = DimValue(in[2].v \div (b * b))
                       /\ known(3) => out[3] = DimValue(in[3].v * b)
                       /\ known(4) => out[4] = DimValue(in[4].v * b)

\* SpaceToDepth of (N, c, h, w) with blocksize MaxDim, h = MaxDim and
\* w = 2 * MaxDim, gave (N, c * MaxDim * MaxDim, 1, 2).
C24_Witness ==
  /\ BlockFirstCall
  /\ op = "SpaceToDepth"
  /\ status = "ok"
  /\ attrs["blocksize"].has /\ attrs["blocksize"].i = MaxDim
  /\ inputs[1].dim = <<DimParam(1), DimValue(MaxDim * MaxDim),
                       DimValue(MaxDim), DimValue(2 * MaxDim)>>
  /\ outputs[1].dim = <<DimParam(1),
                        DimValue(MaxDim * MaxDim * MaxDim * MaxDim),
                        DimValue(1), DimValue(2)>>

(***************************************************************************)
(* Two nodes inferred concurrently.  Each node has its own context; here   *)
(* op, inputs, data, attrs, outputs, status and calls hold one entry per   *)
(* node, calls[n] counts the steps node n has taken and base[n] holds the  *)
(* local variables of its call.  A step is one stretch of the inference    *)
(* function between two writes to the output slot.                         *)
(***************************************************************************)
NodeContext(n) ==
  [inputs |-> inputs[n], data |-> data[n], attrs |-> attrs[n],
   outputs |-> outputs[n]]

NoLocals == [total |-> 0, known |-> TRUE]

Running(out, locals) == [out |-> out, st |-> "running", locals |-> locals]

Finished(r) ==
  [out |-> r.out, st |-> IF r.ok THEN "ok" ELSE "failed", locals |-> NoLocals]

\* Gather: step 0 propagates the element type and runs the checks; step k
\* adds output dimension k - 1.
GatherStep(c, k, locals) ==
  LET r == dim_size(getInputType(c, 0))
      q == dim_size(getInputType(c, 1))
      axis0 == getAttribute(c, "axis", 0)
      axis == IF axis0 < 0 THEN axis0 + r ELSE axis0
      out_rank == q + r - 1
  IN IF k = 0
       THEN LET r0 == propagateElemTypeFromInputToOutput(c, c.outputs, 0, 0)
            IN IF ~r0.ok THEN Finished(r0)
               ELSE IF ~hasNInputShapes(c, 2) THEN Finished(r0)
               ELSE IF r < 1 THEN Finished(Fail(r0.out))
               ELSE IF axis0 < -r \/ axis0 >= r THEN Finished(Fail(r0.out))
               ELSE IF out_rank = 0
                 THEN Finished(Return(mutable_shape(r0.out, 0)))
               ELSE Running(r0.out, locals)
       ELSE LET out == GatherDims(c, c.outputs, axis, k, k - 1)
            IN IF k = out_rank THEN Finished(Return(out))
               ELSE Running(out, locals)

\* Concat: step 0 propagates the element type and runs the checks, step 1
\* adds the unset dimensions, step 2 + i folds input i into the output and
\* the last step writes the total length.
ConcatStep(c, k, locals) ==
  LET numInputs == getNumInputs(c)
      rank == dim_size(getInputType(c, 0))
      axisAttr == c.attrs["axis"]
      axis == axisAttr.i
  IN IF k = 0
       THEN LET r0 == propagateElemTypeFromInputToOutput(c, c.outputs, 0, 0)
            IN IF ~r0.ok THEN Finished(r0)
               ELSE IF numInputs < 1 \/ ~hasNInputShapes(c, numInputs)
                 THEN Finished(r0)
               ELSE IF ~axisAttr.has THEN Finished(Fail(r0.out))
               ELSE IF rank <= axis THEN Finished(Fail(r0.out))
               ELSE IF axis < 0 THEN Finished(r0)
               ELSE Running(r0.out, NoLocals)
     ELSE IF k = 1
       THEN Running(AddDims(mutable_shape(c.outputs, 0), 0, rank), locals)
     ELSE IF k < 2 + numInputs
       THEN LET one == [c EXCEPT !.inputs = <<c.inputs[k - 1]>>]
                st == ConcatDims(one, rank, axis, 0, 0,
                        [out |-> c.outputs, total |-> locals.total,
                         known |-> locals.known, fail |-> FALSE])
            IN IF st.fail THEN Finished(Fail(st.out))
               ELSE Running(st.out, [total |-> st.total, known |-> st.known])
     ELSE IF locals.known
       THEN Finished(Return(mutable_dim(c.outputs, 0, axis,
                                        DimValue(locals.total))))
     ELSE Finished(Return(c.outputs))

\* A variant in which every step writes the slot of node 1.
SlotOfFirst(n) == 1

\* The slot a step of node n writes.
Slot(n) == n

Take(n, r) ==
  /\ status[n] \in {"ready", "running"}
  /\ outputs' = [outputs EXCEPT ![Slot(n)] = r.out]
  /\ status' = [status EXCEPT ![n] = r.st]
  /\ base' = [base EXCEPT ![n] = r.locals]
  /\ calls' = [calls EXCEPT ![n] = @ + 1]
  /\ UNCHANGED <<op, inputs, data, attrs, prev, refined>>

StepConcat(n) ==
  op[n] = "Concat" /\ Take(n, ConcatStep(NodeContext(n), calls[n], base[n]))

StepGather(n) ==
  op[n] = "Gather" /\ Take(n, GatherStep(NodeContext(n), calls[n], base[n]))

\* The contexts of one node: shapes of equal lengths up to rank MaxRank.
NodeTypes ==
  {Tensor("FLOAT", sh) :
     sh \in UNION {Uniform({DimValue(1), DimValue(MaxDim), NoDim}, r) :
                     r \in 1..MaxRank}}
    \cup {Unranked("FLOAT")}

Nodes ==
  {[op |-> o, inputs |-> <<x1, x2>>, attrs |-> OneAttr("axis", a)] :
     o \in {"Concat", "Gather"}, x1 \in NodeTypes, x2 \in NodeTypes,
     a \in IntAttrs(0, MaxRank - 1)}

FewNodes ==
  {[op |-> o, inputs |-> <<x, x>>, attrs |-> OneAttr("axis", IntAttr(0))] :
     o \in {"Concat", "Gather"},
     x \in {Tensor("FLOAT", <<DimValue(MaxDim), DimValue(1)>>),
            Tensor("FLOAT", <<NoDim>>)}}

InitNodes ==
  \E a \in Nodes, b \in FewNodes :
    /\ op = <<a.op, b.op>>
    /\ inputs = <<a.inputs, b.inputs>>
    /\ data = <<<<NoData, NoData>>, <<NoData, NoData>>>>
    /\ attrs = <<a.attrs, b.attrs>>
    /\ outputs = <<FreshOutputs(1), FreshOutputs(1)>>
    /\ status = <<"ready", "ready">>
    /\ calls = <<0, 0>>
    /\ prev = outputs
    /\ base = <<NoLocals, NoLocals>>
    /\ refined = 0

NextNodes == \E n \in 1..2 : StepConcat(n) \/ StepGather(n)

SpecNodes == InitNodes /\ [][NextNodes]_vars

\* What the call of node n leaves when it runs alone on the slots the node
\* started with.
Alone(n) ==
  LET c == [NodeContext(n) EXCEPT !.outputs = prev[n]]
  IN IF op[n] = "Concat" THEN ConcatInference(c) ELSE GatherInference(c)

BothDone == \A n \in 1..2 : status[n] \in {"ok", "failed"}

\* Once both calls have ended, each node has what its call leaves alone.
SameAsOneAfterTheOther ==
  BothDone
    => \A n \in 1..2 : /\ outputs[n] = Alone(n).out
                       /\ (status[n] = "ok") = Alone(n).ok

\* A step changes the output slots of at most one node and no input, no
\* constant and no attribute.
WritesOwnSlotsOnly ==
  /\ inputs' = inputs /\ data' = data /\ attrs' = attrs
  /\ \E n \in 1..2 :
       /\ calls'[n] = calls[n] + 1
       /\ \A m \in (1..2) \ {n} : outputs'[m] = outputs[m]

\* C25: two calls on two nodes with their own contexts, interleaved step by
\* step in any way, end with the output slots of both nodes as they are
\* after running the calls one after the other, and every step writes only
\* the output slots of its own node.
C25_InterleavingsAgree ==
  [](SameAsOneAfterTheOther) /\ [][WritesOwnSlotsOnly]_vars

\* A Concat call and a Gather call of several steps each both ended with
\* success.
C25_Witness ==
  /\ BothDone
  /\ op = <<"Concat", "Gather">>
  /\ status = <<"ok", "ok">>
  /\ calls[1] > 2 /\ calls[2] > 2
  /\ Rank(outputs[1][1]) = 2
  /\ Rank(outputs[2][1]) = 3

(***************************************************************************)
(* A producer feeding a consumer.  Node 1 is an Unsqueeze whose output     *)
(* slot is input 0 of node 2 (Pad, Tile or Reshape).  A caller invokes the *)
(* inference functions of the two nodes in any order; base is the list of  *)
(* the nodes invoked so far and prev keeps the slots the nodes started     *)
(* with.                                                                   *)
(***************************************************************************)
ConsumerInference(o, c) ==
  IF o = "Pad" THEN PadInference(c)
  ELSE IF o = "Tile" THEN TileInference(c)
  ELSE ReshapeInference(c)

\* The context of the consumer when the producer's output slots are mid and
\* its own output slots are out.
ConsumerContext(mid, out) ==
  [inputs |-> [inputs[2] EXCEPT ![1] = mid[1]], data |-> data[2],
   attrs |-> attrs[2], outputs |-> out]

Invoke(n, r) ==
  /\ status[n] \in {"ready", "ok"}
  /\ Len(base) <= MaxCalls
  /\ outputs' = [outputs EXCEPT ![n] = r.out]
  /\ status' = [status EXCEPT ![n] = IF r.ok THEN "ok" ELSE "failed"]
  /\ calls' = [calls EXCEPT ![n] = @ + 1]
  /\ base' = Append(base, n)
  /\ UNCHANGED <<op, inputs, data, attrs, prev, refined>>

InvokeProducer == Invoke(1, UnsqueezeInference(NodeContext(1)))

InvokeConsumer ==
  Invoke(2, ConsumerInference(op[2], ConsumerContext(outputs[1], outputs[2])))

\* Consumers: a Pad with equal pads, a Tile with and without constant
\* repeats, a Reshape with and without a constant target shape.
Consumers ==
  {[op |-> "Pad", inputs |-> <<Unranked("FLOAT")>>, data |-> <<NoData>>,
    attrs |-> OneAttr("pads", IntsAttr(l))] :
     l \in UNION {Uniform((-1)..1, 2 * k) : k \in 0..(MaxRank + 1)}}
  \cup
  {[op |-> "Tile",
    inputs |-> <<Unranked("FLOAT"), Vector("INT64", Len(d.vals))>>,
    data |-> <<NoData, d>>, attrs |-> NoAttrs] :
     d \in {NoData}
             \cup {ConstData("INT64", l) :
                     l \in UNION {Uniform(1..MaxVal + 1, k) :
                                    k \in 0..(MaxRank + 1)}}}
  \cup
  {[op |-> "Reshape",
    inputs |-> <<Unranked("FLOAT"), Vector("INT64", Len(d.vals))>>,
    data |-> <<NoData, d>>, attrs |-> NoAttrs] :
     d \in {NoData}
             \cup {ConstData("INT64", l) :
                     l \in ListsUpTo({-1, 0, 1, MaxDim}, MaxRank)}}

InitChain ==
  \E x \in Ranked("FLOAT", {DimValue(1), DimValue(MaxDim)}, 0, MaxRank),
     a \in ListsUpTo(0..MaxRank, 2), b \in Consumers :
    /\ op = <<"Unsqueeze", b.op>>
    /\ inputs = <<<<x>>, b.inputs>>
    /\ data = <<<<NoData>>, b.data>>
    /\ attrs = <<OneAttr("axes", IntsAttr(a)), b.attrs>>
    /\ outputs = <<<<Unranked("FLOAT")>>, FreshOutputs(1)>>
    /\ status = <<"ready", "ready">>
    /\ calls = <<0, 0>>
    /\ prev = outputs
    /\ base = <<>>
    /\ refined = 0

NextChain == InvokeProducer \/ InvokeConsumer

SpecChain == InitChain /\ [][NextChain]_vars

\* What one pass in topological order leaves: the producer on the slots it
\* started with, then the consumer on the slots it started with.
ProducerFirst ==
  UnsqueezeInference([NodeContext(1) EXCEPT !.outputs = prev[1]])

TopologicalPass ==
  ConsumerInference(op[2], ConsumerContext(ProducerFirst.out, prev[2]))

\* The shape of t says nothing that the shape of u does not say: if t has a
\* rank, u has the same rank, and every length t knows is the length u has.
NoMoreThan(t, u) ==
  t.has_shape
    => /\ u.has_shape
       /\ Rank(t) = Rank(u)
       /\ \A i \in 1..Rank(t) : has_dim_value(t.dim[i]) => t.dim[i] = u.dim[i]

\* C26: after the consumer was invoked before the producer, then the
\* producer, then the consumer again, all three with success, the consumer's
\* output has no rank and no known length other than those a single pass in
\* topological order leaves.
C26_OutOfOrderAgrees ==
  (base = <<2, 1, 2>> /\ status = <<"ok", "ok">> /\ TopologicalPass.ok)
    => NoMoreThan(outputs[2][1], TopologicalPass.out[1])

\* A Reshape with the constant target [1, MaxDim] fed by an Unsqueeze of a
\* vector of MaxDim elements at axis 1: invoked before and after it.
C26_ReshapeInvokedTwice ==
  /\ base = <<2, 1, 2>>
  /\ status = <<"ok", "ok">>
  /\ op[2] = "Reshape"
  /\ inputs[1][1] = Tensor("FLOAT", <<DimValue(MaxDim)>>)
  /\ attrs[1]["axes"] = IntsAttr(<<1>>)
  /\ data[2][2] = ConstData("INT64", <<1, MaxDim>>)
  /\ outputs[1][1] = Tensor("FLOAT", <<DimValue(MaxDim), DimValue(1)>>)
  /\ TopologicalPass.out[1] = Tensor("FLOAT", <<DimValue(1), DimValue(MaxDim)>>)
  /\ outputs[2][1] = Tensor("FLOAT", <<DimValue(1), DimValue(MaxDim),
                                       DimValue(1), DimValue(MaxDim)>>)

(***************************************************************************)
(* Slice with constant starts, ends, axes and steps of any lengths up to   *)
(* MaxRank, axes in and out of range, on data of known and unknown         *)
(* lengths.                                                                *)
(***************************************************************************)
AxesTypes ==
  Ranked("FLOAT", {DimValue(MaxDim), DimParam(1), NoDim}, 0, MaxRank)

InitAxes ==
  \E x \in AxesTypes,
     s \in UNION {Uniform({0}, k) : k \in 0..MaxRank},
     e \in UNION {Uniform({1}, k) : k \in 0..MaxRank},
     a \in ListsUpTo((-MaxRank - 1)..MaxRank, MaxRank),
     t \in UNION {Uniform({1, -1}, k) : k \in 0..MaxRank} :
    Start("Slice",
          <<x, IndexVector(s), IndexVector(e), IndexVector(a), IndexVector(t)>>,
          <<NoData, ConstData("INT64", s), ConstData("INT64", e),
            ConstData("INT64", a), ConstData("INT64", t)>>,
          NoAttrs, FreshOutputs(1))

SpecAxes == InitAxes /\ [][InferSlice]_vars

\* The first call of Slice on a ranked input with the four index inputs
\* given as constants.
SliceAllGiven ==
  /\ op = "Slice"
  /\ FirstCallOnFresh
  /\ Len(inputs) = 5
  /\ inputs[1].has_shape
  /\ \A n \in 2..5 : inputs[n].has_shape /\ data[n].avail

\* The axis entry a denotes on an input of rank r.
Normalized(a, r) == IF a < 0 THEN a + r ELSE a

AxisOutOfRange ==
  \E q \in 1..Len(data[4].vals) :
    LET n == Normalized(data[4].vals[q], Rank(inputs[1]))
    IN n < 0 \/ n >= Rank(inputs[1])

AxisListedTwice ==
  \E q, p \in 1..Len(data[4].vals) :
    /\ q # p
    /\ Normalized(data[4].vals[q], Rank(inputs[1]))
         = Normalized(data[4].vals[p], Rank(inputs[1]))

LengthsDiffer ==
  \E n, m \in 2..5 : Len(data[n].vals) # Len(data[m].vals)

\* C27: Slice on a ranked input with constant starts, ends, axes and steps
\* fails when an axes entry, normalized by the rank, is out of [0, rank),
\* when two entries denote the same axis, and when the four lists are not
\* all of the same length, whether the lengths of the input at those axes
\* are known or not.
C27_SliceAxesValidated ==
  (SliceAllGiven /\ (AxisOutOfRange \/ AxisListedTwice \/ LengthsDiffer))
    => status = "failed"

\* Axes 0 and -2 name the same axis of a rank-2 input whose length at that
\* axis is unknown: the call failed.
C27_Witness ==
  /\ SliceAllGiven
  /\ inputs[1] = Tensor("FLOAT", <<NoDim, DimValue(MaxDim)>>)
  /\ data[4].vals = <<0, -2>>
  /\ ~LengthsDiffer
  /\ ~AxisOutOfRange
  /\ AxisListedTwice
  /\ status = "failed"

\* The target shape is one Reshape rejects: two or more -1 entries, an entry
\* below -1, or a 0 entry at no position of a ranked data input.
TargetRejected(target) ==
  \/ Cardinality({i \in 1..Len(target) : target[i] = -1}) > 1
  \/ \E i \in 1..Len(target) : target[i] < -1
  \/ /\ inputs[1].has_shape
     /\ \E i \in 1..Len(target) : target[i] = 0 /\ i - 1 >= Rank(inputs[1])

\* C28: Reshape with a constant target shape fails when the target has more
\* than one -1, an entry below -1, or a 0 entry at a position at or beyond
\* the rank of a ranked data input; with a data input that has no shape, a
\* target without those two faults succeeds, and each 0 entry leaves its
\* output dimension unset.
C28_ReshapeTargetValidated ==
  ReshapeFirstCall
    => /\ TargetRejected(data[2].vals) => status = "failed"
       /\ (~inputs[1].has_shape /\ ~TargetRejected(data[2].vals))
            => /\ status = "ok"
               /\ Rank(outputs[1]) = Len(data[2].vals)
               /\ \A i \in 1..Len(data[2].vals) :
                    data[2].vals[i] = 0 => outputs[1].dim[i] = NoDim

\* The target [1, 0] on a data input of rank 1: the 0 is at position 1, and
\* the call failed.
C28_Witness ==
  /\ ReshapeFirstCall
  /\ inputs[1] = Tensor("FLOAT", <<DimValue(MaxDim)>>)
  /\ data[2].vals = <<1, 0>>
  /\ status = "failed"

\* The target [0, -1] on a data input without a shape: the call succeeded
\* and left two unset dimensions.
C28_UnrankedZero ==
  /\ ReshapeFirstCall
  /\ ~inputs[1].has_shape
  /\ data[2].vals = <<0, -1>>
  /\ status = "ok"
  /\ outputs[1] = Tensor("FLOAT", <<NoDim, NoDim>>)

\* C29: on success every sliced axis of known length len has an output
\* length between 0 and len, so an axis of length 0 stays of length 0.
C29_SliceNeverLengthens ==
  (SliceFirstCall /\ status = "ok")
    => \A q \in 1..Len(SliceAxesGiven) :
         LET d == inputs[1].dim[SliceAxesGiven[q] + 1]
             o == outputs[1].dim[SliceAxesGiven[q] + 1]
         IN has_dim_value(d)
              => has_dim_value(o) /\ 0 <= o.v /\ o.v <= d.v

\* An axis of length 0 sliced with start -1, end -1 and step -1 came out
\* with length 1.
C29_EmptyAxisLengthened ==
  /\ SliceFirstCall
  /\ status = "ok"
  /\ inputs[1] = Tensor("FLOAT", <<DimValue(0)>>)
  /\ data[2].vals = <<-1>>
  /\ data[3].vals = <<-1>>
  /\ SliceAxesGiven = <<0>>
  /\ SliceStepsGiven = <<-1>>
  /\ outputs[1] = Tensor("FLOAT", <<DimValue(1)>>)

(***************************************************************************)
(* Split without and with the 'split' attribute, on inputs whose lengths   *)
(* are no multiples of the number of outputs.                              *)
(***************************************************************************)
SplitTypes ==
  Ranked("FLOAT", Dims(0..(2 * MaxDim + 1)), 0, MaxRank)
    \cup {Unranked("FLOAT")}

InitSplit == SplitInit(SplitTypes, TRUE)

SpecSplit == InitSplit /\ [][InferSplit]_vars

\* The first call of Split on a ranked input, without the 'split' attribute.
SplitFirstCall ==
  /\ op = "Split"
  /\ calls = 1
  /\ inputs[1].elem # "UNDEFINED"
  /\ inputs[1].has_shape
  /\ ~attrs["split"].has

SplitAxisGiven == IF attrs["axis"].has THEN attrs["axis"].i ELSE 0

\* The lengths the outputs have at position n.
LengthsAt(n) == [j \in 1..Len(outputs) |-> outputs[j].dim[n].v]

\* The outputs have the input shape but for position n, where all have a
\* known length.
InputShapeBut(n) ==
  \A j \in 1..Len(outputs) :
    /\ outputs[j].has_shape
    /\ Rank(outputs[j]) = Rank(inputs[1])
    /\ has_dim_value(outputs[j].dim[n])
    /\ \A i \in 1..Rank(inputs[1]) :
         i # n => outputs[j].dim[i] = inputs[1].dim[i]

EvenChunks(lengths, total) ==
  /\ SumOf(lengths) = total
  /\ \A i, j \in 1..Len(lengths) :
       /\ lengths[i] - lengths[j] <= 1
       /\ i < j => lengths[i] >= lengths[j]

====
